---------------------------- MODULE Spec2Model ----------------------------
(***************************************************************************)
(* A model of the TPMS reader (a ProtoView fork for the Flipper Zero):     *)
(* the raw-sample ring buffer, the coherent-signal scanner, the bitmap and *)
(* line-code layer, the protocol decoders with their dispatcher, and the   *)
(* periodic timer callback that consumes a decoded message.                *)
(*                                                                         *)
(* Conventions.  A C integer is a TLA+ integer kept inside its width with  *)
(* % 2^w where the code can wrap.  A byte buffer is a record               *)
(*     [mem |-> the bits written so far, MSB-first, as a sequence of 0/1,  *)
(*      fill |-> the byte every never-written byte holds,                  *)
(*      size |-> the allocated length in bytes].                           *)
(* A buffer obtained from malloc or left on the stack without memset has   *)
(* an arbitrary fill: the value of an uninitialized read is chosen by the  *)
(* environment (HeapFill).                                                 *)
(***************************************************************************)
EXTENDS Integers, Sequences, FiniteSets, TLC

(***************************************************************************)
(* Machine arithmetic.                                                     *)
(***************************************************************************)
RECURSIVE Pow2(_)
Pow2(n) == IF n <= 0 THEN 1 ELSE 2 * Pow2(n - 1)

\* A uint32_t value v is represented by the integer congruent to v modulo
\* 2^32 that lies in -2^31 .. 2^31 - 1, so UINT32_MAX is -1 and (uint32_t)-32
\* is -32.  Sums, differences and products of representatives are then the
\* ordinary ones, brought back into the range by U32Of; order, division and
\* remainder read the representative as the unsigned value it stands for.
INT32_MAX == Pow2(30) - 1 + Pow2(30)

U32Of(n) ==
    IF n > INT32_MAX THEN n - INT32_MAX - INT32_MAX - 2
    ELSE IF n < 0 - INT32_MAX - 1 THEN n + INT32_MAX + INT32_MAX + 2
    ELSE n

UINT32_MAX == U32Of(0 - 1)

\* a < b as uint32_t.
ULess(a, b) ==
    \/ a >= 0 /\ b < 0
    \/ (a >= 0) = (b >= 0) /\ a < b

\* a / 8 as uint32_t: 2^32 / 8 = 2^29.
UDiv8(a) == IF a < 0 THEN Pow2(29) + (a \div 8) ELSE a \div 8

\* a % n as uint32_t, for 0 < n < 2^15: 2^32 = 2^16 * 2^16.
UMod(a, n) ==
    IF a >= 0 THEN a % n
    ELSE ((a % n) + ((Pow2(16) % n) * (Pow2(16) % n))) % n

UMin(a, b) == IF ULess(a, b) THEN a ELSE b

U8Of(n) == n % 256

RECURSIVE BitOr(_, _)
BitOr(a, b) ==
    IF a = 0 THEN b
    ELSE IF b = 0 THEN a
    ELSE (IF (a % 2) + (b % 2) > 0 THEN 1 ELSE 0) + 2 * BitOr(a \div 2, b \div 2)

RECURSIVE BitXor(_, _)
BitXor(a, b) ==
    IF a = 0 THEN b
    ELSE IF b = 0 THEN a
    ELSE (((a % 2) + (b % 2)) % 2) + 2 * BitXor(a \div 2, b \div 2)

Min2(a, b) == IF a < b THEN a ELSE b

Max2(a, b) == IF a > b THEN a ELSE b

(***************************************************************************)
(* A C loop "for (j = lo; j < hi; j++) body" whose body may break.  The    *)
(* loop state st is a record with a field brk; Body(st, j) is one          *)
(* iteration.  The iterations are applied in order (the range is split in  *)
(* halves only to keep the evaluation stack shallow).                      *)
(***************************************************************************)
RECURSIVE ForLoop(_, _, _, _)
ForLoop(Body(_, _), st, lo, hi) ==
    IF st.brk \/ lo >= hi THEN st
    ELSE IF hi = lo + 1 THEN Body(st, lo)
    ELSE LET mid == (lo + hi) \div 2
         IN  ForLoop(Body, ForLoop(Body, st, lo, mid), mid, hi)

(***************************************************************************)
(* Byte buffers and the bitmap primitives of signal.c.                     *)
(***************************************************************************)
FillBit(fill, bitpos) == (fill \div Pow2(7 - (bitpos % 8))) % 2

\* The bit the memory holds at bitpos, whatever length the caller believes.
MemBit(b, bitpos) ==
    IF bitpos < Len(b.mem) THEN b.mem[bitpos + 1] ELSE FillBit(b.fill, bitpos)

\* s[i]: the byte at index i.
ByteAt(b, i) ==
    MemBit(b, 8 * i) * 128 + MemBit(b, 8 * i + 1) * 64 +
    MemBit(b, 8 * i + 2) * 32 + MemBit(b, 8 * i + 3) * 16 +
    MemBit(b, 8 * i + 4) * 8 + MemBit(b, 8 * i + 5) * 4 +
    MemBit(b, 8 * i + 6) * 2 + MemBit(b, 8 * i + 7)

\* The memory with bit bitpos written.
MemSetBit(b, bitpos, v) ==
    LET n == Len(b.mem)
    IN  IF bitpos < n THEN [b EXCEPT !.mem[bitpos + 1] = v]
        ELSE [b EXCEPT !.mem =
                 [k \in 1..(bitpos + 1) |->
                     IF k <= n THEN b.mem[k]
                     ELSE IF k = bitpos + 1 THEN v
                     ELSE FillBit(b.fill, k - 1)]]

\* d[i] = v.
SetByte(b, i, v) ==
    LET n == Len(b.mem)
        m == IF 8 * i + 8 > n THEN 8 * i + 8 ELSE n
    IN  [b EXCEPT !.mem =
            [k \in 1..m |->
                IF k > 8 * i /\ k <= 8 * i + 8
                THEN (v \div Pow2(7 - ((k - 1) % 8))) % 2
                ELSE IF k <= n THEN b.mem[k]
                ELSE FillBit(b.fill, k - 1)]]

\* uint8_t buf[n]; memset(buf, 0, n).
ZeroBuf(n) == [mem |-> [k \in 1..(8 * n) |-> 0], fill |-> 0, size |-> n]

\* malloc(n), or an automatic array that is not cleared.
UninitBuf(n, fill) == [mem |-> <<>>, fill |-> fill, size |-> n]

bitmap_set(b, blen, bitpos, val) ==
    IF ~ULess(UDiv8(bitpos), blen) THEN b
    ELSE MemSetBit(b, bitpos, IF val THEN 1 ELSE 0)

bitmap_get(b, blen, bitpos) ==
    IF ~ULess(UDiv8(bitpos), blen) THEN FALSE
    ELSE MemBit(b, bitpos) = 1

\* The index of the byte b[byte] that bitmap_get and bitmap_set access, -1
\* when they return before the access.
AccessIndex(blen, bitpos) ==
    IF ~ULess(UDiv8(bitpos), blen) THEN 0 - 1 ELSE UDiv8(bitpos)

(***************************************************************************)
(* A C loop "while (Cond) body" that runs at most bound times.             *)
(***************************************************************************)
WhileLoop(Cond(_), Body(_), st, bound) ==
    LET r == ForLoop(LAMBDA t, j: IF Cond(t) THEN Body(t)
                                  ELSE [t EXCEPT !.brk = TRUE],
                     [st EXCEPT !.brk = FALSE], 0, bound)
    IN  [r EXCEPT !.brk = FALSE]

\* One iteration of the bit-by-bit loops of bitmap_copy.
CopyOneBit(t, s, slen, dlen) ==
    [t EXCEPT !.d = bitmap_set(t.d, dlen, t.doff, bitmap_get(s, slen, t.soff)),
              !.rmax = Max2(@, AccessIndex(slen, t.soff)),
              !.wmax = Max2(@, AccessIndex(dlen, t.doff)),
              !.doff = U32Of(t.doff + 1),
              !.soff = U32Of(t.soff + 1),
              !.count = t.count - 1]

\* The byte stored without the bits of the next source byte.
SkewedByte_first_only(s, sidx, skew) ==
    U8Of(ByteAt(s, sidx) * Pow2(skew))

\* d[didx] = ((s[sidx] << skew) | (s[sidx + 1] >> (8 - skew))), as uint8_t.
SkewedByte(s, sidx, skew) ==
    U8Of(BitOr(ByteAt(s, sidx) * Pow2(skew),
               ByteAt(s, sidx + 1) \div Pow2(8 - skew)))

\* bitmap_copy: d is the destination buffer after the call, rmax the highest
\* index at which it read a byte of s and wmax the highest index at which it
\* wrote a byte of d (-1: none).
bitmap_copy_run(d, dlen, doff, s, slen, soff, count) ==
    LET \* Both offsets byte aligned: whole bytes.
        Aligned(st) ==
            IF doff % 8 = 0 /\ soff % 8 = 0
            THEN WhileLoop(
                   LAMBDA t: t.count > 8 /\ t.doff \div 8 < dlen
                                         /\ t.soff \div 8 < slen,
                   LAMBDA t: [t EXCEPT
                                !.d = SetByte(t.d, t.doff \div 8,
                                              ByteAt(s, t.soff \div 8)),
                                !.rmax = Max2(@, t.soff \div 8),
                                !.wmax = Max2(@, t.doff \div 8),
                                !.doff = t.doff + 8,
                                !.soff = t.soff + 8,
                                !.count = t.count - 8],
                   st, count \div 8 + 1)
            ELSE st
        \* Bit by bit until the destination is byte aligned.
        ToByte(st) ==
            WhileLoop(LAMBDA t: t.count > 8 /\ t.doff % 8 # 0,
                      LAMBDA t: CopyOneBit(t, s, slen, dlen),
                      st, 8)
        \* Destination aligned, source skewed.
        Skewed(st) ==
            IF st.count > 8
            THEN WhileLoop(
                   LAMBDA t: t.count > 8 /\ t.doff \div 8 < dlen
                                         /\ t.soff \div 8 < slen,
                   LAMBDA t: [t EXCEPT
                                !.d = SetByte(t.d, t.doff \div 8,
                                         SkewedByte(s, t.soff \div 8,
                                                    st.soff % 8)),
                                !.rmax = Max2(@, t.soff \div 8 + 1),
                                !.wmax = Max2(@, t.doff \div 8),
                                !.doff = t.doff + 8,
                                !.soff = t.soff + 8,
                                !.count = t.count - 8],
                   st, st.count \div 8 + 1)
            ELSE st
        \* The rest, bit by bit.
        Rest(st) ==
            WhileLoop(LAMBDA t: t.count # 0,
                      LAMBDA t: CopyOneBit(t, s, slen, dlen),
                      st, st.count)
    IN  Rest(Skewed(ToByte(Aligned(
            [brk |-> FALSE, d |-> d, doff |-> doff, soff |-> soff,
             count |-> count, rmax |-> 0 - 1, wmax |-> 0 - 1]))))

\* The copy that takes the source bits from bit 0 on.
bitmap_copy_unshifted(d, dlen, doff, s, slen, soff, count) ==
    bitmap_copy_run(d, dlen, doff, s, slen, 0, count).d

\* bitmap_copy: the destination buffer after the call.
bitmap_copy(d, dlen, doff, s, slen, soff, count) ==
    bitmap_copy_run(d, dlen, doff, s, slen, soff, count).d

\* The comparison of the first character of the pattern only.
bitmap_match_bits_first(b, blen, bitpos, bits) ==
    bitmap_get(b, blen, bitpos) = (bits[1] = 1)

\* A pattern is the C string of '0' and '1' as a sequence of 0 and 1.
bitmap_match_bits(b, blen, bitpos, bits) ==
    \A j \in 1..Len(bits) :
        bitmap_get(b, blen, U32Of(bitpos + j - 1)) = (bits[j] = 1)

\* The highest index at which bitmap_match_bits reads a byte of b (-1:
\* none): it reads the bits of the pattern up to the first mismatch.
MatchAccess(b, blen, bitpos, bits) ==
    LET Upto(last) ==
            ForLoop(LAMBDA t, j:
                        [t EXCEPT !.rmax =
                            Max2(@, AccessIndex(blen, U32Of(bitpos + j - 1)))],
                    [brk |-> FALSE, rmax |-> 0 - 1], 1, last + 1).rmax
        Last(mismatches) ==
            IF mismatches = {} THEN Len(bits)
            ELSE CHOOSE j \in mismatches : \A k \in mismatches : j <= k
    IN  Upto(Last({j \in 1..Len(bits) :
                     bitmap_get(b, blen, U32Of(bitpos + j - 1)) # (bits[j] = 1)}))

BITMAP_SEEK_NOT_FOUND == UINT32_MAX

\* The search that ignores maxbits.
bitmap_seek_bits_whole(b, blen, startpos, maxbits, bits) ==
    ForLoop(LAMBDA t, j: IF bitmap_match_bits(b, blen, j, bits)
                         THEN [brk |-> TRUE, pos |-> j]
                         ELSE t,
            [brk |-> FALSE, pos |-> BITMAP_SEEK_NOT_FOUND],
            startpos, U32Of(startpos + blen * 8)).pos

bitmap_seek_bits(b, blen, startpos, maxbits, bits) ==
    LET endpos == UMin(U32Of(startpos + blen * 8), U32Of(startpos + maxbits))
        r == ForLoop(LAMBDA t, j: IF bitmap_match_bits(b, blen, j, bits)
                                  THEN [brk |-> TRUE, pos |-> j]
                                  ELSE t,
                     [brk |-> FALSE, pos |-> BITMAP_SEEK_NOT_FOUND],
                     startpos, endpos)
    IN  r.pos

\* convert_from_line_code: [buf |-> the destination, decoded |-> the count,
\* rmax |-> the highest index at which it read a byte of bits, wmax |-> the
\* highest index at which it wrote a byte of buf].
convert_from_line_code(buf, buflen, bits, len, off, zero_pattern, one_pattern) ==
    LET len8 == U32Of(len * 8)
        Stored(t1) ==
            IF t1.decoded \div 8 = buflen THEN [t1 EXCEPT !.brk = TRUE] ELSE t1
        Matched(t, iszero, isone) ==
            IF ~iszero /\ ~isone THEN [t EXCEPT !.brk = TRUE]
            ELSE Stored([t EXCEPT
                           !.buf = bitmap_set(t.buf, buflen, t.decoded, ~iszero),
                           !.wmax = Max2(@, AccessIndex(buflen, t.decoded)),
                           !.off = U32Of(t.off + (IF iszero
                                                  THEN Len(zero_pattern)
                                                  ELSE Len(one_pattern))),
                           !.decoded = t.decoded + 1])
        Body(t, j) ==
            IF ~ULess(t.off, len8) THEN [t EXCEPT !.brk = TRUE]
            ELSE Matched([t EXCEPT !.rmax =
                             Max2(Max2(@, MatchAccess(bits, len8, t.off,
                                                      zero_pattern)),
                                  IF bitmap_match_bits(bits, len8, t.off,
                                                       zero_pattern)
                                  THEN 0 - 1
                                  ELSE MatchAccess(bits, len8, t.off,
                                                   one_pattern))],
                         bitmap_match_bits(bits, len8, t.off, zero_pattern),
                         bitmap_match_bits(bits, len8, t.off, one_pattern))
        Result(r) == [buf |-> r.buf, decoded |-> r.decoded,
                      rmax |-> r.rmax, wmax |-> r.wmax]
    IN  Result(ForLoop(Body,
                       [brk |-> FALSE, buf |-> buf, off |-> off, decoded |-> 0,
                        rmax |-> 0 - 1, wmax |-> 0 - 1],
                       0, 8 * buflen + 8))

\* convert_from_diff_manchester: the same record.
convert_from_diff_manchester(buf, buflen, bits, len, off, previous) ==
    LET len8 == U32Of(len * 8)
        Stored(t1) ==
            IF t1.decoded \div 8 = buflen THEN [t1 EXCEPT !.brk = TRUE] ELSE t1
        Pair(t, j, b0, b1) ==
            IF b0 = t.previous THEN [t EXCEPT !.brk = TRUE]
            ELSE Stored([t EXCEPT
                           !.buf = bitmap_set(t.buf, buflen, t.decoded, b0 = b1),
                           !.wmax = Max2(@, AccessIndex(buflen, t.decoded)),
                           !.decoded = t.decoded + 1,
                           !.previous = b1,
                           !.j = j + 2])
        Body(t, n) ==
            IF ~ULess(t.j, len8) THEN [t EXCEPT !.brk = TRUE]
            ELSE Pair([t EXCEPT !.rmax =
                          Max2(Max2(@, AccessIndex(len8, t.j)),
                               AccessIndex(len8, U32Of(t.j + 1)))],
                      t.j,
                      bitmap_get(bits, len8, t.j),
                      bitmap_get(bits, len8, U32Of(t.j + 1)))
        Result(r) == [buf |-> r.buf, decoded |-> r.decoded,
                      rmax |-> r.rmax, wmax |-> r.wmax]
    IN  Result(ForLoop(Body,
                       [brk |-> FALSE, buf |-> buf, j |-> off, decoded |-> 0,
                        previous |-> previous,
                        rmax |-> 0 - 1, wmax |-> 0 - 1],
                       0, 8 * buflen + 8))

\* The decoder that takes no max_bits: the level at off, then the pairs.
diff_manchester_decode_unlimited(buf, buflen, bits, numbytes, off, max_bits) ==
    convert_from_diff_manchester(buf, buflen, bits, numbytes, off + 1,
                                 bitmap_get(bits, numbytes, off))

\* diff_manchester_decode: the same record.
diff_manchester_decode(buf, buflen, bits, numbytes, off, max_bits) ==
    LET limit == U32Of(numbytes * 8)
        Pair(t, bit2, bit3) ==
            [t EXCEPT !.buf = bitmap_set(t.buf, buflen, t.decoded, bit2 = bit3),
                      !.wmax = Max2(@, AccessIndex(buflen, t.decoded)),
                      !.rmax = Max2(@, AccessIndex(numbytes, t.off + 1)),
                      !.decoded = t.decoded + 1,
                      !.off = t.off + 2,
                      !.bit = bit3]
        Second(t, bit2) ==
            IF t.bit = bit2 THEN [t EXCEPT !.brk = TRUE]
            ELSE IF t.off + 1 >= limit
            THEN [t EXCEPT !.off = t.off + 1, !.brk = TRUE]
            ELSE Pair(t, bit2, bitmap_get(bits, numbytes, t.off + 1))
        Body(t, j) ==
            IF ~(t.decoded < max_bits /\ t.off < limit)
            THEN [t EXCEPT !.brk = TRUE]
            ELSE Second([t EXCEPT !.rmax =
                            Max2(@, AccessIndex(numbytes, t.off))],
                        bitmap_get(bits, numbytes, t.off))
        Result(r) == [buf |-> r.buf, decoded |-> r.decoded,
                      rmax |-> r.rmax, wmax |-> r.wmax]
    IN  IF off >= limit
        THEN [buf |-> buf, decoded |-> 0, rmax |-> 0 - 1, wmax |-> 0 - 1]
        ELSE Result(ForLoop(Body,
                            [brk |-> FALSE, buf |-> buf, off |-> off + 1,
                             decoded |-> 0,
                             bit |-> bitmap_get(bits, numbytes, off),
                             rmax |-> AccessIndex(numbytes, off),
                             wmax |-> 0 - 1],
                            0, max_bits + 1))

(***************************************************************************)
(* Checksums (crc.c).  data is the sequence of the bytes checked.          *)
(***************************************************************************)
RECURSIVE CrcShift(_, _, _, _)
CrcShift(crc, poly, width, n) ==
    IF n = 0 THEN crc
    ELSE CrcShift(IF crc >= Pow2(width - 1)
                  THEN BitXor((crc * 2) % Pow2(width), poly)
                  ELSE (crc * 2) % Pow2(width),
                  poly, width, n - 1)

\* The accumulator after all the bytes of data.
CrcBytes(data, init, poly, width) ==
    LET r == ForLoop(LAMBDA t, k:
                        [t EXCEPT !.crc =
                            CrcShift(BitXor(t.crc, data[k] * Pow2(width - 8)),
                                     poly, width, 8)],
                     [brk |-> FALSE, crc |-> init], 1, Len(data) + 1)
    IN  r.crc

crc8(data, init, poly) == CrcBytes(data, init, poly, 8)

crc16(data, init, poly) == CrcBytes(data, init, poly, 16)

sum_bytes(data, init) ==
    LET r == ForLoop(LAMBDA t, k: [t EXCEPT !.acc = U8Of(t.acc + data[k])],
                     [brk |-> FALSE, acc |-> init], 1, Len(data) + 1)
    IN  r.acc

xor_bytes(data, init) ==
    LET r == ForLoop(LAMBDA t, k: [t EXCEPT !.acc = BitXor(t.acc, data[k])],
                     [brk |-> FALSE, acc |-> init], 1, Len(data) + 1)
    IN  r.acc

\* The bytes buf[from .. from + n - 1].
Bytes(buf, from, n) == [k \in 1..n |-> ByteAt(buf, from + k - 1)]

(***************************************************************************)
(* The field set (fields.c).  A float is kept in hundredths.               *)
(***************************************************************************)
fieldset_new == <<>>

fieldset_add_bytes(fs, name, bytes, count) ==
    Append(fs, [name |-> name, type |-> "FieldTypeBytes", len |-> count,
                value |-> bytes])

fieldset_add_float(fs, name, val, digits_after_dot) ==
    Append(fs, [name |-> name, type |-> "FieldTypeFloat",
                len |-> digits_after_dot, value |-> val])

fieldset_add_int(fs, name, val, bits) ==
    Append(fs, [name |-> name, type |-> "FieldTypeSignedInt", len |-> bits,
                value |-> val])

fieldset_add_uint(fs, name, uval, bits) ==
    Append(fs, [name |-> name, type |-> "FieldTypeUnsignedInt", len |-> bits,
                value |-> uval])

fieldset_add_hex(fs, name, uval, bits) ==
    Append(fs, [name |-> name, type |-> "FieldTypeHex", len |-> bits,
                value |-> uval])

(***************************************************************************)
(* Message info.  A pointer that may be NULL is a sequence of length 0     *)
(* (NULL) or 1.                                                            *)
(***************************************************************************)
NULL == <<>>

\* init_msg_info.
init_msg_info ==
    [decoder |-> "", fieldset |-> fieldset_new, start_off |-> 0,
     pulses_count |-> 0, short_pulse_dur |-> 0, bits |-> NULL,
     bits_bytes |-> 0]

\* A decoder that gives up only after it has emitted a field.
RejectedAfterField(info) ==
    [ok |-> FALSE,
     info |-> [info EXCEPT !.fieldset =
                  fieldset_add_bytes(@, "Tire ID", <<0, 0, 0, 0>>, 4 * 2)]]

\* What a decoder returns: its result and the info it leaves behind.
Rejected(info) == [ok |-> FALSE, info |-> info]

Accepted(info) == [ok |-> TRUE, info |-> info]

(***************************************************************************)
(* The protocol decoders.  Each takes the working bitmap, its size in      *)
(* bytes, the number of bits converted and the candidate info, and returns *)
(* the result with the info as the call leaves it.  Floats are kept in     *)
(* hundredths.                                                             *)
(***************************************************************************)

\* protocols/tpms/pmv107j.c
PMV107JTPMSDecoder(bits, numbytes, numbits, info) ==
    LET Parsed(info1, decoded, b) ==
            LET tire_id == [k \in 1..4 |->
                               BitOr(U8Of(b[k] * 64), b[k + 1] \div 4)]
                pressure_kpa == (b[6] - 40) * 248
                temp_c == b[8] - 40
            IN  IF decoded < 66 THEN Rejected(info1)
                ELSE IF crc8(SubSeq(b, 1, 8), 0, 19) # b[9]
                THEN Rejected(info1)
                ELSE IF BitXor(b[6], b[7]) # 255 THEN Rejected(info1)
                ELSE Accepted([info1 EXCEPT
                        !.pulses_count = U32Of(decoded * 2 + 6),
                        !.fieldset =
                            fieldset_add_int(
                              fieldset_add_float(
                                fieldset_add_bytes(info1.fieldset, "Tire ID",
                                                   tire_id, 4 * 2),
                                "Pressure kpa", pressure_kpa, 2),
                              "Temperature C", temp_c, 8)])
        \* b[0] holds the first two bits, b[1..8] the 64 that follow.
        Decoded(info1, dm) ==
            Parsed(info1, dm.decoded,
                   << (IF bitmap_get(dm.buf, 10, 0) THEN 2 ELSE 0) +
                      (IF bitmap_get(dm.buf, 10, 1) THEN 1 ELSE 0) >> \o
                   Bytes(bitmap_copy(ZeroBuf(8), 8, 0, dm.buf, 10, 2, 64),
                         0, 8))
        Found(off0) ==
            IF off0 = BITMAP_SEEK_NOT_FOUND THEN Rejected(info)
            ELSE Decoded([info EXCEPT !.start_off = off0],
                         diff_manchester_decode(ZeroBuf(10), 10, bits,
                                                numbytes, U32Of(off0 + 6), 70))
    IN  IF numbits < 6 + 66 * 2 THEN Rejected(info)
        ELSE Found(bitmap_seek_bits(bits, numbytes, 0, numbits,
                                    <<1,1,1,1,1,0>>))

\* Elantra 2012 / Honda Civic.  raw[8] is not cleared; every byte of it is
\* written before it is read.
Elantra2012TPMSDecoder(bits, numbytes, numbits, info) ==
    LET Parsed(info1, off, decoded, raw) ==
            LET pressure_kpa == (raw[1] + 60) * 100
                temp_c == raw[2] - 50
                tire_id == SubSeq(raw, 3, 6)
            IN  IF decoded < 64 THEN Rejected(info1)
                ELSE IF crc8(SubSeq(raw, 1, 7), 0, 7) # raw[8]
                THEN Rejected(info1)
                ELSE Accepted([info1 EXCEPT
                        !.pulses_count =
                            U32Of(U32Of(off + 64 * 2) - info1.start_off),
                        !.fieldset =
                            fieldset_add_int(
                              fieldset_add_float(
                                fieldset_add_bytes(info1.fieldset, "Tire ID",
                                                   tire_id, 4 * 2),
                                "Pressure kpa", pressure_kpa, 1),
                              "Temperature C", temp_c, 8)])
        Decoded(info1, off, lc) ==
            Parsed(info1, off, lc.decoded, Bytes(lc.buf, 0, 8))
        Synced(info1, off) ==
            Decoded(info1, off,
                    convert_from_line_code(UninitBuf(8, 0), 8, bits, numbytes,
                                           off, <<0,1>>, <<1,0>>))
        Found(off0) ==
            IF off0 = BITMAP_SEEK_NOT_FOUND THEN Rejected(info)
            ELSE Synced([info EXCEPT !.start_off = off0], U32Of(off0 + 16))
    IN  IF numbits < 16 + 64 * 2 THEN Rejected(info)
        ELSE Found(bitmap_seek_bits(bits, numbytes, 0, numbits,
                                    <<0,1,1,1,0,0,0,1,0,1,0,1,0,1,0,1>>))

\* protocols/tpms/bmw.c
BMWTPMSDecoder(bits, numbytes, numbits, info) ==
    LET Parsed(info1, off, decoded, raw) ==
            LET is_bmw == decoded >= 88
                is_audi == ~is_bmw /\ decoded >= 64
                msg_len == IF is_bmw THEN 11 ELSE 8
                crc_len == msg_len - 1
                tire_id == SubSeq(raw, 2, 5)
                pressure_kpa == raw[6] * 245
                temp_c == raw[7] - 52
            IN  IF ~is_bmw /\ ~is_audi THEN Rejected(info1)
                ELSE IF crc8(SubSeq(raw, 1, crc_len), 170, 47) # raw[crc_len + 1]
                THEN Rejected(info1)
                ELSE Accepted([info1 EXCEPT
                        !.pulses_count =
                            U32Of(U32Of(off + decoded * 2) - info1.start_off),
                        !.fieldset =
                            fieldset_add_int(
                              fieldset_add_float(
                                fieldset_add_bytes(info1.fieldset, "Tire ID",
                                                   tire_id, 4 * 2),
                                "Pressure kpa", pressure_kpa, 1),
                              "Temperature C", temp_c, 8)])
        Decoded(info1, off, lc) ==
            Parsed(info1, off, lc.decoded, Bytes(lc.buf, 0, 11))
        Synced(info1, off) ==
            Decoded(info1, off,
                    convert_from_line_code(ZeroBuf(11), 11, bits, numbytes,
                                           off, <<1,0>>, <<0,1>>))
        Found(off0) ==
            IF off0 = BITMAP_SEEK_NOT_FOUND THEN Rejected(info)
            ELSE Synced([info EXCEPT !.start_off = off0], U32Of(off0 + 16))
    IN  IF numbits < 16 + 64 * 2 THEN Rejected(info)
        ELSE Found(bitmap_seek_bits(bits, numbytes, 0, numbits,
                                    <<1,0,1,0,1,0,1,0,0,1,0,1,1,0,0,1>>))

\* protocols/tpms/bmw_g3.c
BMWGen3TPMSDecoder(bits, numbytes, numbits, info) ==
    LET Parsed(info1, off, decoded, raw) ==
            LET is_gen3 == decoded >= 88
                is_gen2 == ~is_gen3 /\ decoded >= 80
                msg_len == IF is_gen3 THEN 11 ELSE 10
                tire_id == SubSeq(raw, 1, 4)
                pressure_kpa == (raw[5] - 43) * 250
                temp_c == raw[6] - 40
            IN  IF ~is_gen3 /\ ~is_gen2 THEN Rejected(info1)
                ELSE IF crc16(SubSeq(raw, 1, msg_len), 0, 4129) # 0
                THEN Rejected(info1)
                ELSE Accepted([info1 EXCEPT
                        !.pulses_count =
                            U32Of(U32Of(off + decoded * 2) - info1.start_off),
                        !.fieldset =
                            fieldset_add_int(
                              fieldset_add_float(
                                fieldset_add_bytes(info1.fieldset, "Tire ID",
                                                   tire_id, 4 * 2),
                                "Pressure kpa", pressure_kpa, 1),
                              "Temperature C", temp_c, 8)])
        Decoded(info1, off, dm) ==
            Parsed(info1, off, dm.decoded, Bytes(dm.buf, 0, 11))
        Synced(info1, off) ==
            Decoded(info1, off,
                    diff_manchester_decode(ZeroBuf(11), 11, bits, numbytes,
                                           off, 90))
        Found(off0) ==
            IF off0 = BITMAP_SEEK_NOT_FOUND THEN Rejected(info)
            ELSE Synced([info EXCEPT !.start_off = off0], U32Of(off0 + 16))
    IN  IF numbits < 16 + 88 * 2 THEN Rejected(info)
        ELSE Found(bitmap_seek_bits(bits, numbytes, 0, numbits,
                                    <<1,1,0,0,1,1,0,0,1,1,0,0,1,1,0,1>>))

\* Porsche Boxster/Cayman.
PorscheTPMSDecoder(bits, numbytes, numbits, info) ==
    LET Parsed(info1, off, decoded, raw) ==
            LET tire_id == SubSeq(raw, 1, 4)
                pressure_kpa == raw[5] * 250 - 10000
                temp_c == raw[6] - 40
            IN  IF decoded < 80 THEN Rejected(info1)
                ELSE IF crc16(raw, 65535, 4129) # 0 THEN Rejected(info1)
                ELSE Accepted([info1 EXCEPT
                        !.pulses_count =
                            U32Of(U32Of(off + decoded * 2) - info1.start_off),
                        !.fieldset =
                            fieldset_add_int(
                              fieldset_add_float(
                                fieldset_add_bytes(info1.fieldset, "Tire ID",
                                                   tire_id, 4 * 2),
                                "Pressure kpa", pressure_kpa, 1),
                              "Temperature C", temp_c, 8)])
        Decoded(info1, off, dm) ==
            Parsed(info1, off, dm.decoded, Bytes(dm.buf, 0, 10))
        Synced(info1, off) ==
            Decoded(info1, off,
                    diff_manchester_decode(ZeroBuf(10), 10, bits, numbytes,
                                           off, 82))
        Found(off0) ==
            IF off0 = BITMAP_SEEK_NOT_FOUND THEN Rejected(info)
            ELSE Synced([info EXCEPT !.start_off = off0], U32Of(off0 + 12))
    IN  IF numbits < 20 + 80 * 2 THEN Rejected(info)
        ELSE Found(bitmap_seek_bits(bits, numbytes, 0, numbits,
                                    <<1,1,0,0,1,1,0,0,1,0,1,0>>))

\* The fields with the pressure emitted as an unsigned integer.
SchraderSMD3MA4FieldsUint(fs, tire_id, pressure_psi) ==
    fieldset_add_uint(
      fieldset_add_bytes(fs, "Tire ID", tire_id, 3 * 2),
      "Pressure psi", pressure_psi, 1)

\* The fields Schrader SMD3MA4 emits (part_000, lines 63-64).
SchraderSMD3MA4Fields(fs, tire_id, pressure_psi) ==
    fieldset_add_float(
      fieldset_add_bytes(fs, "Tire ID", tire_id, 3 * 2),
      "Pressure psi", pressure_psi, 1)

\* Schrader SMD3MA4.
SchraderSMD3MA4TPMSDecoder(bits, numbytes, numbits, info) ==
    LET Checked(info1, off, decoded, raw, tire_id, pressure_psi) ==
            IF decoded < 39 THEN Rejected(info1)
            ELSE IF raw[1] = 0 /\ raw[2] = 0 /\ raw[3] = 0 /\ raw[4] = 0
            THEN Rejected(info1)
            ELSE IF pressure_psi > 10000 \/ pressure_psi < 0
            THEN Rejected(info1)
            ELSE Accepted([info1 EXCEPT
                    !.pulses_count =
                        U32Of(U32Of(off + decoded * 2) - info1.start_off),
                    !.fieldset =
                        SchraderSMD3MA4Fields(info1.fieldset, tire_id,
                                              pressure_psi)])
        \* pressure_raw is ((raw[3] & 0x1F) << 5) | (raw[4] >> 3).
        Parsed(info1, off, decoded, raw) ==
            Checked(info1, off, decoded, raw,
                    << BitOr(U8Of((raw[1] % 32) * 8), raw[2] \div 32),
                       BitOr(U8Of(raw[2] * 8), raw[3] \div 32),
                       BitOr(U8Of(raw[3] * 8), raw[4] \div 32) >>,
                    BitOr((raw[4] % 32) * 32, raw[5] \div 8) * 20)
        Decoded(info1, off, lc) ==
            Parsed(info1, off, lc.decoded, Bytes(lc.buf, 0, 5))
        Synced(info1, off) ==
            Decoded(info1, off,
                    convert_from_line_code(ZeroBuf(5), 5, bits, numbytes,
                                           off, <<0,1>>, <<1,0>>))
        Found(off0) ==
            IF off0 = BITMAP_SEEK_NOT_FOUND THEN Rejected(info)
            ELSE Synced([info EXCEPT !.start_off = off0], U32Of(off0 + 12))
    IN  IF numbits < 12 + 39 * 2 THEN Rejected(info)
        ELSE Found(bitmap_seek_bits(bits, numbytes, 0, numbits,
                                    <<0,1,0,1,0,1,0,1,1,1,1,0>>))

\* Hyundai / Kia.  raw[10] is not cleared; every byte of it is written
\* before it is read.
HyundaiKiaTPMSDecoder(bits, numbytes, numbits, info) ==
    LET sync_len == 12 + 4
        Parsed(info1, off, decoded, raw) ==
            LET id == SubSeq(raw, 2, 5)
                kpa == raw[7] * 250
                temp == raw[8] - 50
                battery == raw[6] % 128
                flags == raw[1]
            IN  IF decoded < 10 * 8 THEN Rejected(info1)
                ELSE IF xor_bytes(SubSeq(raw, 1, 9), 0) # raw[10]
                THEN Rejected(info1)
                ELSE Accepted([info1 EXCEPT
                        !.pulses_count =
                            U32Of((off + 10 * 8 * 2) - info1.start_off),
                        !.fieldset =
                            fieldset_add_hex(
                              fieldset_add_uint(
                                fieldset_add_int(
                                  fieldset_add_float(
                                    fieldset_add_bytes(info1.fieldset,
                                                       "Tire ID", id, 4 * 2),
                                    "Pressure kpa", kpa, 2),
                                  "Temperature C", temp, 8),
                                "Battery", battery, 7),
                              "Flags", flags, 8)])
        Decoded(info1, off, lc) ==
            Parsed(info1, off, lc.decoded, Bytes(lc.buf, 0, 10))
        Synced(info1, off) ==
            Decoded(info1, off,
                    convert_from_line_code(UninitBuf(10, 0), 10, bits,
                                           numbytes, U32Of(off),
                                           <<0,1>>, <<1,0>>))
        Found(off0) ==
            IF off0 = BITMAP_SEEK_NOT_FOUND THEN Rejected(info)
            ELSE Synced([info EXCEPT !.start_off = off0], off0 + sync_len)
    IN  IF ULess(U32Of(numbits - sync_len), 10 * 8 * 2) THEN Rejected(info)
        ELSE Found(bitmap_seek_bits(bits, numbytes, 0, numbits,
                                    <<0,1,0,1,0,1,0,1,0,1,0,1,0,1,1,0>>))

\* protocols/tpms/gm.c
GMTPMSDecoder(bits, numbytes, numbits, info) ==
    LET Parsed(info1, off, decoded, raw) ==
            LET tire_id == SubSeq(raw, 10, 14)
                pressure_kpa == raw[15] * 275
                temp_c == raw[16] - 60
            IN  IF decoded < 130 THEN Rejected(info1)
                ELSE IF \E i \in 1..6 : raw[i] # 0 THEN Rejected(info1)
                ELSE IF sum_bytes(SubSeq(raw, 7, 16), 0) # raw[17]
                THEN Rejected(info1)
                ELSE IF pressure_kpa > 100000 \/ pressure_kpa < 0
                THEN Rejected(info1)
                ELSE Accepted([info1 EXCEPT
                        !.pulses_count =
                            U32Of(U32Of(off + decoded * 2) - info1.start_off),
                        !.fieldset =
                            fieldset_add_int(
                              fieldset_add_float(
                                fieldset_add_bytes(info1.fieldset, "Tire ID",
                                                   tire_id, 5 * 2),
                                "Pressure kpa", pressure_kpa, 1),
                              "Temperature C", temp_c, 8)])
        Decoded(info1, off, lc) ==
            Parsed(info1, off, lc.decoded, Bytes(lc.buf, 0, 17))
        Synced(info1, off) ==
            Decoded(info1, off,
                    convert_from_line_code(ZeroBuf(17), 17, bits, numbytes,
                                           off, <<1,0>>, <<0,1>>))
        Found(off) ==
            IF off = BITMAP_SEEK_NOT_FOUND THEN Rejected(info)
            ELSE Synced([info EXCEPT !.start_off = off], off)
    IN  IF numbits < 48 + 82 * 2 THEN Rejected(info)
        ELSE Found(bitmap_seek_bits(bits, numbytes, 0, numbits,
                                    [k \in 1..48 |-> k % 2]))

(***************************************************************************)
(* The ring sample buffer (raw_samples.c).  samples is indexed from 1, so  *)
(* slot k of the C array is samples[k + 1].                                *)
(***************************************************************************)
RAW_SAMPLES_NUM == 256

ZeroSample == [level |-> FALSE, dur |-> 0]

\* raw_samples_alloc followed by raw_samples_reset.
raw_samples_alloc ==
    [samples |-> [k \in 1..RAW_SAMPLES_NUM |-> ZeroSample], idx |-> 0,
     total |-> RAW_SAMPLES_NUM, short_pulse_dur |-> 0]

raw_samples_reset(s) ==
    [s EXCEPT !.samples = [k \in 1..RAW_SAMPLES_NUM |-> ZeroSample],
              !.idx = 0, !.short_pulse_dur = 0]

raw_samples_add(s, level, dur) ==
    [s EXCEPT !.samples[s.idx + 1] = [level |-> level, dur |-> dur],
              !.idx = (s.idx + 1) % RAW_SAMPLES_NUM]

\* idx is the index as the caller's 32-bit arithmetic produced it.
raw_samples_get(s, idx) ==
    s.samples[UMod(U32Of(s.idx + idx), s.total) + 1]

\* raw_samples_copy(dst, src): dst afterwards.
raw_samples_copy(dst, src) ==
    [dst EXCEPT !.samples = src.samples, !.idx = src.idx,
                !.short_pulse_dur = src.short_pulse_dur]

raw_samples_center(s, offset) ==
    [s EXCEPT !.idx = UMod(U32Of(s.idx + offset), RAW_SAMPLES_NUM)]

(***************************************************************************)
(* Raw signal detection.                                                   *)
(***************************************************************************)
duration_delta(a, b) == IF a > b THEN a - b ELSE b - a

SEARCH_CLASSES == 3

max_duration == 4000

\* A threshold one pulse too low.
minlen_short == 18 - 1

minlen == 18

\* The range test without its lower limit.
OutOfRangeAbove(dur, min_duration) == dur > max_duration

\* search_coherent_signal, line 83: the pulse ends the run.
OutOfRange(dur, min_duration) == dur < min_duration \/ dur > max_duration

LevelIdx(level) == IF level THEN 2 ELSE 1

\* The class loop of search_coherent_signal for one pulse:
\* [k |-> the value of k after the loop, classes |-> the classes].
RECURSIVE ClassifyPulse(_, _, _, _)
ClassifyPulse(classes, k, level, dur) ==
    IF k = SEARCH_CLASSES THEN [k |-> k, classes |-> classes]
    ELSE
    LET l == LevelIdx(level)
        classavg == classes[k + 1].dur[l]
        count == classes[k + 1].count[l]
        delta == duration_delta(dur, classavg)
    IN  IF count = 0
        THEN [k |-> k,
              classes |-> [classes EXCEPT ![k + 1].dur[l] = dur,
                                          ![k + 1].count[l] = 1]]
        ELSE IF delta < classavg \div 5
        THEN [k |-> k,
              classes |-> [classes EXCEPT
                  ![k + 1].dur[l] =
                      U32Of(U32Of(classavg * count) + dur) \div (count + 1),
                  ![k + 1].count[l] = count + 1]]
        ELSE ClassifyPulse(classes, k + 1, level, dur)

\* The smallest class duration of a level among the classes seen 3 times.
RECURSIVE ShortDur(_, _, _, _)
ShortDur(classes, j, l, cur) ==
    IF j > SEARCH_CLASSES THEN cur
    ELSE ShortDur(classes, j + 1, l,
                  IF classes[j].dur[l] = 0 THEN cur
                  ELSE IF classes[j].count[l] < 3 THEN cur
                  ELSE IF cur = 0 \/ cur > classes[j].dur[l]
                  THEN classes[j].dur[l]
                  ELSE cur)

\* search_coherent_signal: [len |-> the return value,
\*                          short_pulse_dur |-> s->short_pulse_dur afterwards,
\*                          examined |-> the pulses read with raw_samples_get].
search_coherent_signal_run(s, idx, min_duration) ==
    LET Classified(t, c) ==
            IF c.k = SEARCH_CLASSES THEN [t EXCEPT !.brk = TRUE]
            ELSE [t EXCEPT !.classes = c.classes, !.len = t.len + 1]
        Pulse(t, smp) ==
            IF OutOfRange(smp.dur, min_duration)
            THEN [t EXCEPT !.brk = TRUE]
            ELSE Classified(t, ClassifyPulse(t.classes, 0, smp.level,
                                             smp.dur))
        Body(t, j) ==
            Pulse([t EXCEPT !.examined = @ + 1], raw_samples_get(s, j))
        Averaged(len, examined, sd0, sd1) ==
            LET short0 == IF sd0 = 0 THEN sd1 ELSE sd0
                short1 == IF sd1 = 0 THEN short0 ELSE sd1
            IN  [len |-> len, examined |-> examined,
                 short_pulse_dur |-> (short0 + short1) \div 2]
        Finish(r) ==
            Averaged(r.len, r.examined, ShortDur(r.classes, 1, 1, 0),
                     ShortDur(r.classes, 1, 2, 0))
    IN  Finish(ForLoop(Body,
                       [brk |-> FALSE, len |-> 0, examined |-> 0,
                        classes |-> [k \in 1..SEARCH_CLASSES |->
                                       [dur |-> <<0, 0>>, count |-> <<0, 0>>]]],
                       idx, idx + s.total))

search_coherent_signal(s, idx, min_duration) ==
    LET Returned2(r) == [len |-> r.len, short_pulse_dur |-> r.short_pulse_dur]
    IN  Returned2(search_coherent_signal_run(s, idx, min_duration))

(***************************************************************************)
(* convert_signal_to_bits.                                                 *)
(***************************************************************************)
\* F(lo) \o F(lo + 1) \o ... \o F(hi - 1).
RECURSIVE ConcatOver(_, _, _)
ConcatOver(F(_), lo, hi) ==
    IF lo >= hi THEN <<>>
    ELSE IF hi = lo + 1 THEN F(lo)
    ELSE LET mid == (lo + hi) \div 2
         IN  ConcatOver(F, lo, mid) \o ConcatOver(F, mid, hi)

\* The bits one sample expands to at the given rate.
\* One bit for each pulse, whatever its duration.
SampleBits_single(smp, rate) == << IF smp.level THEN 1 ELSE 0 >>

\* The quotient of duration and rate without rounding.
SampleBits_truncated(smp, rate) ==
    LET n0 == smp.dur \div rate
        numbits == IF n0 > 1024 THEN 1024 ELSE n0
    IN  [k \in 1..numbits |-> IF smp.level THEN 1 ELSE 0]

SampleBits(smp, rate) ==
    LET n0 == smp.dur \div rate
        n1 == IF smp.dur % rate > rate \div 2 THEN n0 + 1 ELSE n0
        numbits == IF n1 > 1024 THEN 1024 ELSE n1
    IN  [k \in 1..numbits |-> IF smp.level THEN 1 ELSE 0]

\* convert_signal_to_bits: [b |-> the bitmap afterwards,
\*                          bits |-> the return value].
convert_signal_to_bits(b, blen, s, idx, count, rate) ==
    LET Stored(all, kept, n) ==
            [b |-> [b EXCEPT !.mem = [k \in 1..n |->
                                        IF k <= kept THEN all[k] ELSE b.mem[k]]],
             bits |-> U32Of(Len(all))]
        Kept(all, kept) ==
            Stored(all, kept, IF Len(b.mem) > kept THEN Len(b.mem) ELSE kept)
        Expanded(all) == Kept(all, Min2(Len(all), blen * 8))
    IN  IF rate = 0 THEN [b |-> b, bits |-> 0]
        ELSE Expanded(ConcatOver(
                        LAMBDA j: SampleBits(raw_samples_get(s, U32Of(j + idx)),
                                             rate),
                        0, count))

(***************************************************************************)
(* The decoders whose source is not part of the tree.  What such a decoder *)
(* does with a bitmap is not known: ext names the one (if any) that        *)
(* accepts the bitmap at hand, with the offset and span it records.  An    *)
(* accepting decoder emits the contract fields; a rejecting one has no     *)
(* effect.                                                                 *)
(***************************************************************************)
NoExt == [accept |-> "", start_off |-> 0, pulses_count |-> 0]

ExtDecoder(name, info, ext) ==
    IF ext.accept = name
    THEN Accepted([info EXCEPT
            !.start_off = ext.start_off,
            !.pulses_count = ext.pulses_count,
            !.fieldset =
                fieldset_add_int(
                  fieldset_add_float(
                    fieldset_add_bytes(info.fieldset, "Tire ID",
                                       <<1, 2, 3, 4>>, 4 * 2),
                    "Pressure kpa", 22000, 2),
                  "Temperature C", 20, 8)])
    ELSE Rejected(info)

RenaultTPMSDecoder(info, ext) == ExtDecoder("RenaultTPMSDecoder", info, ext)

ToyotaTPMSDecoder(info, ext) == ExtDecoder("ToyotaTPMSDecoder", info, ext)

SchraderTPMSDecoder(info, ext) == ExtDecoder("SchraderTPMSDecoder", info, ext)

SchraderEG53MA4TPMSDecoder(info, ext) ==
    ExtDecoder("SchraderEG53MA4TPMSDecoder", info, ext)

CitroenTPMSDecoder(info, ext) == ExtDecoder("CitroenTPMSDecoder", info, ext)

FordTPMSDecoder(info, ext) == ExtDecoder("FordTPMSDecoder", info, ext)

(***************************************************************************)
(* The registry and the dispatcher.                                        *)
(***************************************************************************)
\* The registry with the generic Toyota decoder listed first.
DecodersToyotaFirst ==
    << "ToyotaTPMSDecoder", "Elantra2012TPMSDecoder", "BMWTPMSDecoder",
       "BMWGen3TPMSDecoder", "PorscheTPMSDecoder",
       "SchraderSMD3MA4TPMSDecoder", "RenaultTPMSDecoder",
       "PMV107JTPMSDecoder", "SchraderTPMSDecoder",
       "SchraderEG53MA4TPMSDecoder", "CitroenTPMSDecoder", "FordTPMSDecoder",
       "HyundaiKiaTPMSDecoder", "GMTPMSDecoder" >>

Decoders ==
    << "PMV107JTPMSDecoder", "Elantra2012TPMSDecoder", "BMWTPMSDecoder",
       "BMWGen3TPMSDecoder", "PorscheTPMSDecoder",
       "SchraderSMD3MA4TPMSDecoder", "RenaultTPMSDecoder",
       "ToyotaTPMSDecoder", "SchraderTPMSDecoder",
       "SchraderEG53MA4TPMSDecoder", "CitroenTPMSDecoder", "FordTPMSDecoder",
       "HyundaiKiaTPMSDecoder", "GMTPMSDecoder" >>

\* Decoders[j]->decode(bitmap, bitmap_size, bits, info), j counted from 1.
DecoderCall(j, bitmap, numbytes, numbits, info, ext) ==
    LET d == Decoders[j]
    IN  CASE d = "PMV107JTPMSDecoder" ->
                PMV107JTPMSDecoder(bitmap, numbytes, numbits, info)
          [] d = "Elantra2012TPMSDecoder" ->
                Elantra2012TPMSDecoder(bitmap, numbytes, numbits, info)
          [] d = "BMWTPMSDecoder" ->
                BMWTPMSDecoder(bitmap, numbytes, numbits, info)
          [] d = "BMWGen3TPMSDecoder" ->
                BMWGen3TPMSDecoder(bitmap, numbytes, numbits, info)
          [] d = "PorscheTPMSDecoder" ->
                PorscheTPMSDecoder(bitmap, numbytes, numbits, info)
          [] d = "SchraderSMD3MA4TPMSDecoder" ->
                SchraderSMD3MA4TPMSDecoder(bitmap, numbytes, numbits, info)
          [] d = "RenaultTPMSDecoder" -> RenaultTPMSDecoder(info, ext)
          [] d = "ToyotaTPMSDecoder" -> ToyotaTPMSDecoder(info, ext)
          [] d = "SchraderTPMSDecoder" -> SchraderTPMSDecoder(info, ext)
          [] d = "SchraderEG53MA4TPMSDecoder" ->
                SchraderEG53MA4TPMSDecoder(info, ext)
          [] d = "CitroenTPMSDecoder" -> CitroenTPMSDecoder(info, ext)
          [] d = "FordTPMSDecoder" -> FordTPMSDecoder(info, ext)
          [] d = "HyundaiKiaTPMSDecoder" ->
                HyundaiKiaTPMSDecoder(bitmap, numbytes, numbits, info)
          [] d = "GMTPMSDecoder" ->
                GMTPMSDecoder(bitmap, numbytes, numbits, info)

bitmap_bits_size == 4096 * 8

bitmap_size == bitmap_bits_size \div 8

before_samples == 32

after_samples == 100

\* decode_signal, lines 404-407: the working bitmap and the bits converted.
DecodeConvert(s, len, fill) ==
    convert_signal_to_bits(UninitBuf(bitmap_size, fill), bitmap_size, s,
                           U32Of(0 - before_samples),
                           U32Of(len + before_samples + after_samples),
                           s.short_pulse_dur)

\* One iteration of the loop of decode_signal (lines 422-433) on decoder j:
\* the decoder's result, with info->decoder set when it accepted.
DecodeTry(j, bitmap, bits, info, ext) ==
    LET Called(r) ==
            IF r.ok THEN Accepted([r.info EXCEPT !.decoder = Decoders[j]])
            ELSE r
    IN  Called(DecoderCall(j, bitmap, bitmap_size, bits, info, ext))

\* The loop of decode_signal from decoder j on:
\* [decoded, info, tried |-> the decoders called, in order].
RECURSIVE DecodeLoop(_, _, _, _, _, _)
DecodeLoop(j, bitmap, bits, info, ext, tried) ==
    LET Tried(r) ==
            IF r.ok
            THEN [decoded |-> TRUE, info |-> r.info,
                  tried |-> Append(tried, Decoders[j])]
            ELSE DecodeLoop(j + 1, bitmap, bits, r.info, ext,
                            Append(tried, Decoders[j]))
    IN  IF j > Len(Decoders)
        THEN [decoded |-> FALSE, info |-> info, tried |-> tried]
        ELSE Tried(DecodeTry(j, bitmap, bits, info, ext))

\* The payload copied from the start of the bitmap instead of start_off.
DecodeFinishFromZero(decoded, info, bitmap, fill) ==
    IF decoded /\ info.pulses_count # 0
    THEN LET bits_bytes == UDiv8(U32Of(info.pulses_count + 7))
         IN  [info EXCEPT
                !.bits_bytes = bits_bytes,
                !.bits = << bitmap_copy(UninitBuf(bits_bytes, fill),
                                        bits_bytes, 0, bitmap, bitmap_size,
                                        0, info.pulses_count) >>]
    ELSE info

\* decode_signal, lines 435-446: the info after the payload copy.  fill is
\* what the fresh payload buffer holds.
DecodeFinish(decoded, info, bitmap, fill) ==
    IF decoded /\ info.pulses_count # 0
    THEN LET bits_bytes == UDiv8(U32Of(info.pulses_count + 7))
         IN  [info EXCEPT
                !.bits_bytes = bits_bytes,
                !.bits = << bitmap_copy(UninitBuf(bits_bytes, fill),
                                        bits_bytes, 0, bitmap, bitmap_size,
                                        info.start_off, info.pulses_count) >>]
    ELSE info

\* decode_signal as a whole: [decoded, info, tried, bitmap, bits].
decode_signal(s, len, info, fill, ext) ==
    LET Looped(c, l) ==
            [decoded |-> l.decoded,
             info |-> DecodeFinish(l.decoded, l.info, c.b, fill),
             tried |-> l.tried, bitmap |-> c.b, bits |-> c.bits]
        Converted(c) == Looped(c, DecodeLoop(1, c.b, c.bits, info, ext, <<>>))
    IN  Converted(DecodeConvert(s, len, fill))

(***************************************************************************)
(* Transmissions: what a sensor puts on the air, as the encoders of the    *)
(* protocols produce it.  These are the inputs of the specifications.      *)
(***************************************************************************)
BitsOfByte(v) == [k \in 1..8 |-> (v \div Pow2(8 - k)) % 2]

BitsOfBytes(bytes) ==
    ConcatOver(LAMBDA j: BitsOfByte(bytes[j]), 1, Len(bytes) + 1)

\* Each data bit as its two half-bits.
ManchesterBits(data, zero, one) ==
    ConcatOver(LAMBDA j: IF data[j] = 0 THEN zero ELSE one, 1, Len(data) + 1)

\* Differential Manchester: the level c0, then for each data bit a mid-bit
\* transition followed by a start transition exactly for a 0.
DiffManchesterBits(data, c0) ==
    LET Sent(t, j, b2) ==
            [t EXCEPT !.out = t.out \o
                                <<b2, IF data[j] = 1 THEN b2 ELSE 1 - b2>>,
                      !.c = IF data[j] = 1 THEN b2 ELSE 1 - b2]
        Body(t, j) == Sent(t, j, 1 - t.c)
    IN  ForLoop(Body, [brk |-> FALSE, out |-> <<c0>>, c |-> c0],
                1, Len(data) + 1).out

\* The payloads, each with its valid check value.
PayloadPMV ==
    LET b == <<0, 18, 52, 86, 120, 200, 55, 90>>
    IN  Append(b, crc8(b, 0, 19))

PayloadElantra ==
    LET b == <<80, 90, 222, 173, 190, 239, 0>>
    IN  Append(b, crc8(b, 0, 7))

PayloadBMW ==
    LET b == <<1, 17, 34, 51, 68, 100, 72, 0, 0, 3>>
    IN  Append(b, crc8(b, 170, 47))

PayloadAudi ==
    LET b == <<2, 18, 35, 52, 69, 90, 70>>
    IN  Append(b, crc8(b, 170, 47))

PayloadBMWGen3 ==
    LET b == <<161, 178, 195, 212, 130, 65, 0, 1, 2>>
        Checked(c) == b \o <<c \div 256, c % 256>>
    IN  Checked(crc16(b, 0, 4129))

PayloadPorsche ==
    LET b == <<10, 11, 12, 13, 128, 60, 0, 0>>
        Checked(c) == b \o <<c \div 256, c % 256>>
    IN  Checked(crc16(b, 65535, 4129))

PayloadSMD3MA4 == <<42, 188, 222, 229, 144>>

PayloadHyundaiKia ==
    LET b == <<3, 202, 254, 186, 190, 85, 96, 75, 0>>
    IN  Append(b, xor_bytes(b, 0))

PayloadGM ==
    LET b == <<0, 0, 0, 0, 0, 0, 7, 8, 9, 81, 82, 83, 84, 85, 80, 85>>
    IN  Append(b, sum_bytes(SubSeq(b, 7, 16), 0))

Kinds == {"PMV", "Elantra", "BMW", "Audi", "BMWGen3", "Porsche", "SMD3MA4",
          "HyundaiKia", "GM"}

Corruptions == {"none", "badcheck", "truncated", "nopreamble"}

\* The payload of a kind, damaged as asked: "badcheck" alters the last
\* byte but one, so that the check value no longer fits.
Payload(kind, corrupt) ==
    LET Damaged(p, n) ==
            IF corrupt = "badcheck" /\ kind # "SMD3MA4"
            THEN [p EXCEPT ![n - 1] = (p[n - 1] + 1) % 256]
            ELSE IF corrupt = "badcheck"
            THEN <<0, 0, 0, 0, 0>>
            ELSE p
        Sized(p) == Damaged(p, Len(p))
    IN  Sized(CASE kind = "PMV" -> PayloadPMV
                [] kind = "Elantra" -> PayloadElantra
                [] kind = "BMW" -> PayloadBMW
                [] kind = "Audi" -> PayloadAudi
                [] kind = "BMWGen3" -> PayloadBMWGen3
                [] kind = "Porsche" -> PayloadPorsche
                [] kind = "SMD3MA4" -> PayloadSMD3MA4
                [] kind = "HyundaiKia" -> PayloadHyundaiKia
                [] kind = "GM" -> PayloadGM)

\* The data bits sent for a payload.
DataBits(kind, corrupt) ==
    LET Cut(all) ==
            IF corrupt = "truncated" THEN SubSeq(all, 1, Len(all) - 6) ELSE all
        Sent(p) ==
            Cut(CASE kind = "PMV" ->
                       <<(p[1] \div 2) % 2, p[1] % 2>> \o BitsOfBytes(Tail(p))
                  [] kind = "SMD3MA4" -> SubSeq(BitsOfBytes(p), 1, 39)
                  [] OTHER -> BitsOfBytes(p))
    IN  Sent(Payload(kind, corrupt))

Preamble(kind) ==
    CASE kind = "PMV" -> <<1,1,1,1,1,0>>
      [] kind = "Elantra" -> <<0,1,1,1,0,0,0,1,0,1,0,1,0,1,0,1>>
      [] kind \in {"BMW", "Audi"} -> <<1,0,1,0,1,0,1,0,0,1,0,1,1,0,0,1>>
      [] kind = "BMWGen3" -> <<1,1,0,0,1,1,0,0,1,1,0,0,1,1,0,1>>
      [] kind = "Porsche" ->
            <<1,1,0,0,1,1,0,0,1,1,0,0,1,1,0,0,1,1,0,0,1,0,1,0>>
      [] kind = "SMD3MA4" -> <<0,1,0,1,0,1,0,1,0,1,0,1,1,1,1,0>>
      [] kind = "HyundaiKia" -> <<0,1,0,1,0,1,0,1,0,1,0,1,0,1,1,0>>
      [] kind = "GM" -> <<>>

\* The half-bits on the air: pad low half-bits, the preamble, the data.
FrameBits(kind, corrupt, pad) ==
    LET Coded(d) ==
            CASE kind \in {"PMV", "BMWGen3", "Porsche"} ->
                    DiffManchesterBits(d, 1)
              [] kind \in {"BMW", "Audi", "GM"} ->
                    ManchesterBits(d, <<1,0>>, <<0,1>>)
              [] OTHER -> ManchesterBits(d, <<0,1>>, <<1,0>>)
    IN  [k \in 1..pad |-> 0] \o
        (IF corrupt = "nopreamble" THEN <<>> ELSE Preamble(kind)) \o
        Coded(DataBits(kind, corrupt))

\* The pulses of a sequence of half-bits, each lasting unit microseconds:
\* one pulse for each run of equal half-bits.
PulsesOfBits(bits, unit) ==
    LET r == ForLoop(LAMBDA t, j:
                        IF j > 1 /\ bits[j] = bits[j - 1]
                        THEN [t EXCEPT !.out[Len(t.out)].dur = @ + unit]
                        ELSE [t EXCEPT !.out =
                                 Append(t.out, [level |-> bits[j] = 1,
                                                dur |-> unit])],
                     [brk |-> FALSE, out |-> <<>>],
                     1, Len(bits) + 1)
    IN  r.out

(***************************************************************************)
(* The modulation presets (app_subghz.c).  tpms tells whether the name     *)
(* contains "TPMS".  The table ends where the C table has its NULL name.   *)
(***************************************************************************)
ProtoViewModulations ==
    << [name |-> "OOK 650Khz", tpms |-> FALSE, duration_filter |-> 30],
       [name |-> "TPMS 1 (FSK)", tpms |-> TRUE, duration_filter |-> 30],
       [name |-> "TPMS 2 (OOK)", tpms |-> TRUE, duration_filter |-> 40] >>

\* find_tpms_modulation: an index into the C table, counted from 0.
find_tpms_modulation ==
    LET found == {k \in 1..Len(ProtoViewModulations) :
                     ProtoViewModulations[k].tpms}
    IN  IF found = {} THEN 0
        ELSE (CHOOSE k \in found : \A m \in found : k <= m) - 1

\* next_tpms_modulation.
next_tpms_modulation(current) ==
    LET n == Len(ProtoViewModulations)
        r == ForLoop(LAMBDA t, j:
                        LET idx == IF t.idx + 1 >= n THEN 0 ELSE t.idx + 1
                        IN  IF ProtoViewModulations[idx + 1].tpms
                            THEN [brk |-> TRUE, idx |-> idx, res |-> idx]
                            ELSE IF idx = current
                            THEN [brk |-> TRUE, idx |-> idx, res |-> current]
                            ELSE [t EXCEPT !.idx = idx],
                     [brk |-> FALSE, idx |-> current, res |-> current],
                     0, n + 1)
    IN  r.res

(***************************************************************************)
(* The heap of message infos.  A pointer is <<>> (NULL) or <<k>>, the k-th *)
(* block allocated; a block is live until it is freed, and frees counts    *)
(* the calls of free on it.                                                *)
(***************************************************************************)
Deref(heap, ptr) == heap[ptr[1]].info

\* malloc(sizeof(ProtoViewMsgInfo)) and init_msg_info.
AllocMsgInfo(heap) ==
    Append(heap, [live |-> TRUE, frees |-> 0, info |-> init_msg_info])

\* A release that returns without freeing.
free_msg_info_leak(heap, ptr) == heap

\* free_msg_info: the heap afterwards.
free_msg_info(heap, ptr) ==
    IF ptr = NULL THEN heap
    ELSE [heap EXCEPT ![ptr[1]] = [live |-> FALSE, frees |-> @.frees + 1,
                                   info |-> init_msg_info]]

(***************************************************************************)
(* The sensor list (tpms_sensor.c).                                        *)
(***************************************************************************)
TPMS_MAX_SENSORS == 32

TPMS_ID_MAX_BYTES == 8

\* a / b as C computes it for int: truncation toward zero.
CDiv(a, b) == IF a >= 0 THEN a \div b ELSE 0 - ((0 - a) \div b)

\* fieldset_find: <<>> or <<the first field of that name>>.
fieldset_find(fs, name) ==
    LET hits == {k \in 1..Len(fs) : fs[k].name = name}
    IN  IF hits = {} THEN NULL
        ELSE << fs[CHOOSE k \in hits : \A m \in hits : k <= m] >>

\* sensor_list_find: the index counted from 0, or -1.
sensor_list_find(list, id, id_len) ==
    LET hits == {k \in 1..Len(list) :
                    list[k].id_len = id_len /\ list[k].id = id}
    IN  IF hits = {} THEN 0 - 1
        ELSE (CHOOSE k \in hits : \A m \in hits : k <= m) - 1

\* The name of a decoder of the registry.
DecoderName(d) ==
    CASE d = "PMV107JTPMSDecoder" -> "Toyota PMV-107J"
      [] d = "Elantra2012TPMSDecoder" -> "Elantra2012 TPMS"
      [] d = "BMWTPMSDecoder" -> "BMW/Audi TPMS"
      [] d = "BMWGen3TPMSDecoder" -> "BMW Gen2/3 TPMS"
      [] d = "PorscheTPMSDecoder" -> "Porsche TPMS"
      [] d = "SchraderSMD3MA4TPMSDecoder" -> "Schrader SMD3MA4"
      [] d = "HyundaiKiaTPMSDecoder" -> "Hyundai/Kia TPMS"
      [] d = "GMTPMSDecoder" -> "GM TPMS"
      [] OTHER -> d

\* The line tpms_save_to_file appends for a sensor.
CsvLine(sensor) ==
    [id |-> sensor.id, protocol |-> sensor.protocol,
     pressure_psi |-> IF sensor.has_pressure THEN <<sensor.pressure_psi>>
                      ELSE <<>>,
     temperature_f |-> IF sensor.has_temperature THEN <<sensor.temperature_f>>
                       ELSE <<>>,
     rx_count |-> sensor.rx_count]

\* tpms_extract_and_store: [list |-> the sensor list afterwards,
\*                          file |-> the log file afterwards, ok |-> result].
\* Pressures are in hundredths of a PSI, the kPa conversion factor
\* 0.14503774 is applied as 14504 / 100000.
tpms_extract_and_store(list, file, msg) ==
    LET fs == msg.fieldset
        id_field == fieldset_find(fs, "Tire ID")
        nbytes == Min2((id_field[1].len + 1) \div 2, TPMS_ID_MAX_BYTES)
        id == SubSeq(id_field[1].value, 1, Min2(nbytes, Len(id_field[1].value)))
        pressure_kpa == fieldset_find(fs, "Pressure kpa")
        pressure_psi == fieldset_find(fs, "Pressure psi")
        has_psi == pressure_psi # NULL /\ pressure_psi[1].type = "FieldTypeFloat"
        has_kpa == pressure_kpa # NULL /\ pressure_kpa[1].type = "FieldTypeFloat"
        temp_c == fieldset_find(fs, "Temperature C")
        has_temp == temp_c # NULL /\ temp_c[1].type = "FieldTypeSignedInt"
        sensor ==
            [id |-> id, id_len |-> nbytes,
             protocol |-> DecoderName(msg.decoder),
             pressure_psi |-> IF has_psi THEN pressure_psi[1].value
                              ELSE IF has_kpa
                              THEN CDiv(pressure_kpa[1].value * 14504, 100000)
                              ELSE 0,
             has_pressure |-> has_psi \/ has_kpa,
             temperature_f |-> IF has_temp
                               THEN CDiv(temp_c[1].value * 9, 5) + 32 ELSE 0,
             has_temperature |-> has_temp,
             rx_count |-> 1]
        idx == sensor_list_find(list, sensor.id, sensor.id_len)
        old == list[idx + 1]
        updated ==
            [old EXCEPT
               !.pressure_psi = IF sensor.has_pressure
                                THEN sensor.pressure_psi ELSE @,
               !.has_pressure = @ \/ sensor.has_pressure,
               !.temperature_f = IF sensor.has_temperature
                                 THEN sensor.temperature_f ELSE @,
               !.has_temperature = @ \/ sensor.has_temperature,
               !.rx_count = U32Of(@ + 1),
               !.protocol = sensor.protocol]
    IN  IF id_field = NULL THEN [list |-> list, file |-> file, ok |-> FALSE]
        ELSE IF id_field[1].type # "FieldTypeBytes"
        THEN [list |-> list, file |-> file, ok |-> FALSE]
        ELSE IF idx >= 0
        THEN [list |-> [list EXCEPT ![idx + 1] = updated],
              file |-> Append(file, CsvLine(updated)), ok |-> TRUE]
        ELSE IF Len(list) < TPMS_MAX_SENSORS
        THEN [list |-> Append(list, sensor),
              file |-> Append(file, CsvLine(sensor)), ok |-> TRUE]
        ELSE [list |-> list, file |-> file, ok |-> TRUE]

(***************************************************************************)
(* What the radio delivers.                                                *)
(***************************************************************************)
PulseUnit == 50

MaxScans == 2

MaxAppends == 1

MaxAllocFailures == 1

MaxTicks == 2

HeapFill == {0, 170}

\* n pulses of alternating level, each lasting d.
Run(n, d) == [k \in 1..n |-> [level |-> k % 2 = 1, dur |-> d]]

\* Silence: one pulse longer than any the scanner accepts.
Gap == << [level |-> FALSE, dur |-> max_duration + 100 * PulseUnit] >>

\* Glitches: pulses shorter than any duration filter.
Glitches(n) == Run(n, PulseUnit \div 5)

Frame(kind, corrupt, pad) ==
    PulsesOfBits(FrameBits(kind, corrupt, pad), PulseUnit)

TapeNames == {"mixed", "min", "max", "quiet", "empty", "full", "short",
              "wrapped"}

\* The pulses received before the first timer tick.
Tape(name, filter) ==
    CASE name = "mixed" ->
            Run(30, 8 * PulseUnit) \o Gap \o Run(20, 8 * PulseUnit) \o Gap \o
            Frame("SMD3MA4", "none", 3) \o Gap \o Glitches(6)
      [] name = "min" -> Run(20, filter) \o Glitches(110)
      [] name = "max" -> Run(20, max_duration) \o Glitches(110)
      [] name = "quiet" -> Run(18, 8 * PulseUnit) \o Gap \o Glitches(112)
      [] name = "empty" -> <<>>
      [] name = "full" -> Run(RAW_SAMPLES_NUM, 8 * PulseUnit)
      [] name = "short" -> Glitches(100)
      [] name = "wrapped" ->
            Run(10, 8 * PulseUnit) \o Gap \o
            Run(RAW_SAMPLES_NUM - 11, 8 * PulseUnit)

\* The pulses received afterwards, one at a time.
Stream == Run(MaxAppends, 8 * PulseUnit)

\* The buffer after the radio appended the pulses to a fresh one.
Prefill(pulses) ==
    LET r == ForLoop(LAMBDA t, k:
                        [t EXCEPT !.s = raw_samples_add(t.s, pulses[k].level,
                                                        pulses[k].dur)],
                     [brk |-> FALSE, s |-> raw_samples_alloc],
                     1, Len(pulses) + 1)
    IN  r.s

\* What the decoders without source may do with a bitmap.
ExtChoices ==
    { NoExt,
      [accept |-> "ToyotaTPMSDecoder", start_off |-> 0, pulses_count |-> 0],
      [accept |-> "RenaultTPMSDecoder", start_off |-> 5, pulses_count |-> 24] }

\* The same, for all the candidates of a reception.
ScanExtChoices ==
    { NoExt,
      [accept |-> "ToyotaTPMSDecoder", start_off |-> 0, pulses_count |-> 0] }

(***************************************************************************)
(* The state.                                                              *)
(***************************************************************************)
VARIABLES
    RawSamples,      \* the buffer the radio appends to
    DetectedSamples, \* the buffer of the latched signal
    copy,            \* scan_for_signal: NULL or <<the working copy>>
    app,             \* the fields of ProtoViewApp
    msgs,            \* the heap of message infos
    file,            \* the lines of tpms_log.csv
    pc,              \* where the timer callback (or decode_signal) stands
    scan,            \* scan_for_signal: the locals i and min_duration
    taken,           \* the source as raw_samples_copy read it
    radio,           \* the pulses the radio has still to deliver
    dec              \* decode_signal: its locals, when run step by step

vars == << RawSamples, DetectedSamples, copy, app, msgs, file, pc, scan,
           taken, radio, dec >>

\* The uint32_t read from four bytes that all hold fill.
WordOf(fill) ==
    (IF fill >= 128 THEN fill - 256 ELSE fill) * 16777216 + fill * 65793

\* protoview_app_alloc.  The debugging counters are not initialised: they
\* hold what malloc returned, word.
protoview_app_alloc(word) ==
    [signal_bestlen |-> 0, signal_last_scan_idx |-> 0,
     signal_decoded |-> FALSE, signal_offset |-> 0, msg_info |-> NULL,
     modulation |-> find_tpms_modulation, radio_modulation |-> find_tpms_modulation,
     sensor_list |-> <<>>, selected_sensor |-> 0, list_scroll_offset |-> 0,
     mod_auto_cycle |-> TRUE, mod_cycle_counter |-> 0,
     current_view |-> "ViewTPMSList", freq_mod_changed |-> FALSE,
     dbg_scan_count |-> word, dbg_coherent_count |-> word,
     dbg_last_signal_len |-> word, dbg_last_signal_dur |-> word,
     dbg_decode_try_count |-> word, dbg_decode_ok_count |-> word]

\* The latched state: app->msg_info with what it points to,
\* app->signal_bestlen, app->signal_decoded and DetectedSamples.
Latched(a, detected, heap) ==
    [msg_info |-> a.msg_info,
     info |-> IF a.msg_info = NULL THEN NULL ELSE << Deref(heap, a.msg_info) >>,
     signal_bestlen |-> a.signal_bestlen,
     signal_decoded |-> a.signal_decoded,
     DetectedSamples |-> detected]

\* What a scan finds when it starts: the latched state, the number of
\* message infos allocated so far, of decode_signal calls and of candidates.
ScanEntry(a, detected, heap) ==
    [latched |-> Latched(a, detected, heap),
     allocated |-> Len(heap),
     decode_calls |-> a.dbg_decode_try_count,
     candidates |-> a.dbg_coherent_count]

\* scan_for_signal's locals i and min_duration, what it found on entry, the
\* allocation that failed for the last candidate ("" when none did), the
\* number of allocations that failed so far, the number of its calls so far,
\* the number of timer ticks so far, the number of pulses the radio appended
\* to RawSamples since the previous scan, and the context that called it: "timer" for timer_callback, which
\* protoview_app_entry registers as the callback of a periodic FuriTimer and
\* which the timer service therefore runs, "main" for the event loop of
\* protoview_app_entry, "" while it is not running.
NoScan == [i |-> 0, min_duration |-> 0, failed |-> "", failures |-> 0,
           context |-> "", ticks |-> 0, arrived |-> 0,
           entry |-> ScanEntry(protoview_app_alloc(0), raw_samples_alloc,
                               <<>>),
           scans |-> 0]

\* A working copy that was allocated but never filled.
ScanSnapshotNotCopied(source) == raw_samples_alloc

\* scan_for_signal, lines 129-130: the working copy.
ScanSnapshot(source) == raw_samples_copy(raw_samples_alloc, source)

\* The consumption that leaves the decoded flag set.
ConsumeDecodedKeepsFlag(a, list) ==
    [a EXCEPT !.sensor_list = list,
              !.signal_bestlen = 0,
              !.msg_info = NULL]

\* timer_callback, lines 213-218: the application once the decoded message
\* is consumed.
ConsumeDecoded(a, list) ==
    [a EXCEPT !.sensor_list = list,
              !.signal_bestlen = 0,
              !.signal_decoded = FALSE,
              !.msg_info = NULL]

\* decode_signal's parameters and locals.  entry is *info as it was when the
\* decoder called last was entered and ret as that decoder left it, tried
\* the decoders called with their results, in order.
NoDec == [s |-> raw_samples_alloc, len |-> 0, info |-> init_msg_info,
          entry |-> init_msg_info, ret |-> init_msg_info,
          bitmap |-> UninitBuf(0, 0), bits |-> 0,
          j |-> 0, decoded |-> FALSE, tried |-> <<>>, ext |-> NoExt,
          fill |-> 0]

\* The indexes of the presets the settings view or the auto-cycling can
\* have selected.
TpmsModulations ==
    {k \in 0..(Len(ProtoViewModulations) - 1) : ProtoViewModulations[k + 1].tpms}

\* The receptions the model starts from: a tape, the preset selected, what
\* the memory of the application holds where it is not initialised, and what
\* the decoders without source do with the candidates.
Receptions ==
    {r \in TapeNames \X TpmsModulations \X HeapFill \X ScanExtChoices :
        /\ r[1] = "min" \/ r[2] = find_tpms_modulation
        /\ r[1] = "mixed" \/ (r[3] = 0 /\ r[4] = NoExt)}

Init ==
    \E r \in Receptions :
      LET name == r[1]
          m == r[2]
      IN
        /\ RawSamples =
               Prefill(Tape(name, ProtoViewModulations[m + 1].duration_filter))
        /\ DetectedSamples = raw_samples_alloc
        /\ copy = NULL
        /\ app = [protoview_app_alloc(WordOf(r[3])) EXCEPT !.modulation = m,
                                             !.radio_modulation = m]
        /\ msgs = <<>>
        /\ file = <<>>
        /\ pc = "idle"
        /\ scan = [NoScan EXCEPT !.arrived =
                      Len(Tape(name,
                               ProtoViewModulations[m + 1].duration_filter))]
        /\ taken = raw_samples_alloc
        /\ radio = Stream
        /\ dec = [NoDec EXCEPT !.ext = r[4]]

(***************************************************************************)
(* scan_for_signal, one candidate at a time.                               *)
(***************************************************************************)
\* The loop of scan_for_signal from index i up to the next run longer than
\* minlen, or to the end of the loop: the iterations in between only move i.
\* [found, i |-> the index reached, len, spd |-> copy->short_pulse_dur].
\* scan_for_signal, line 175, without the step of one for an empty run.
ScanStep_by_length(i, thislen) == U32Of(i + thislen)

\* scan_for_signal, line 175: i += thislen ? thislen : 1.
ScanStep(i, thislen) == U32Of(i + (IF thislen # 0 THEN thislen ELSE 1))

\* scan_for_signal, lines 137-176, on the working copy cp: the start index,
\* the run length and the pulses examined of every iteration of the loop, in
\* order, for at most limit evaluations of the loop condition.  brk tells
\* that the loop condition became false.
ScanIterations(cp, min_duration, limit) ==
    LET Searched(t, r) ==
            [t EXCEPT !.i = ScanStep(t.i, r.len),
                      !.trace = Append(@, [i |-> t.i, len |-> r.len,
                                           examined |-> r.examined])]
        Body(t, n) ==
            IF ~ULess(t.i, cp.total - 1) THEN [t EXCEPT !.brk = TRUE]
            ELSE Searched(t, search_coherent_signal_run(cp, t.i,
                                                        min_duration))
    IN  ForLoop(Body, [brk |-> FALSE, i |-> 0, trace |-> <<>>], 0, limit)

ScanAdvance(cp, i, min_duration) ==
    LET Searched(t, r) ==
            IF r.len > minlen
            THEN [t EXCEPT !.brk = TRUE, !.found = TRUE,
                           !.len = r.len, !.spd = r.short_pulse_dur]
            ELSE [t EXCEPT !.i = ScanStep(t.i, r.len),
                           !.spd = r.short_pulse_dur]
        Body(t, n) ==
            IF ~ULess(t.i, cp.total - 1) THEN [t EXCEPT !.brk = TRUE]
            ELSE Searched(t, search_coherent_signal(cp, t.i, min_duration))
    IN  ForLoop(Body,
                [brk |-> FALSE, found |-> FALSE, i |-> i, len |-> 0,
                 spd |-> cp.short_pulse_dur],
                0, cp.total + 1)

\* The decision without its first condition.
LatchCandidateAlways(signal_decoded, signal_bestlen, thislen, decoded) ==
    thislen > signal_bestlen \/ decoded

\* The decision of lines 158-161.
LatchCandidate(signal_decoded, signal_bestlen, thislen, decoded) ==
    signal_decoded = FALSE /\ (thislen > signal_bestlen \/ decoded)

\* timer_callback, lines 193-204, and scan_for_signal, lines 129-135.
TimerEntry ==
    /\ pc = "idle"
    /\ scan.scans < MaxScans
    /\ scan.ticks < MaxTicks
    /\ LET lastidx == app.signal_last_scan_idx
           delta == IF lastidx < RawSamples.idx
                    THEN RawSamples.idx - lastidx
                    ELSE RawSamples.total - lastidx + RawSamples.idx
       IN  IF delta < RawSamples.total \div 2
           THEN /\ scan' = [scan EXCEPT !.ticks = @ + 1]
                /\ UNCHANGED << RawSamples, DetectedSamples, copy, app, msgs,
                                file, pc, taken, radio, dec >>
           ELSE /\ app' = [app EXCEPT
                             !.signal_last_scan_idx = RawSamples.idx,
                             !.dbg_scan_count = U32Of(@ + 1)]
                /\ copy' = << ScanSnapshot(RawSamples) >>
                /\ taken' = RawSamples
                /\ scan' = [i |-> 0, failed |-> "",
                            failures |-> scan.failures,
                            context |-> "timer",
                            ticks |-> scan.ticks + 1,
                            arrived |-> 0,
                            min_duration |->
                              ProtoViewModulations[app.modulation + 1].duration_filter,
                            entry |-> ScanEntry(app, DetectedSamples, msgs),
                            scans |-> scan.scans + 1]
                /\ pc' = "scan"
                /\ UNCHANGED << RawSamples, DetectedSamples, msgs, file,
                                radio, dec >>

\* scan_for_signal, lines 137-176: the iterations up to and including the
\* next run longer than minlen.
ScanCandidate ==
    LET \* Lines 158-176.
        Decide(adv, info, cp3, heap2, decoded, app1) ==
            /\ IF LatchCandidate(app.signal_decoded, app.signal_bestlen,
                                 adv.len, decoded)
               THEN /\ msgs' = free_msg_info(heap2, app.msg_info)
                    /\ app' = [app1 EXCEPT !.msg_info = info,
                                           !.signal_bestlen = adv.len,
                                           !.signal_decoded = decoded]
                    /\ DetectedSamples' =
                         raw_samples_center(
                           raw_samples_copy(DetectedSamples, cp3), adv.i)
               ELSE /\ msgs' = free_msg_info(heap2, info)
                    /\ app' = app1
                    /\ UNCHANGED DetectedSamples
            /\ copy' = << cp3 >>
            /\ scan' = [scan EXCEPT !.i = ScanStep(adv.i, adv.len),
                               !.failed = ""]
        \* Lines 154-156.
        Decoded(adv, info, cp1, cp2, heap1, d) ==
            Decide(adv, info, [cp2 EXCEPT !.idx = cp1.idx],
                   [heap1 EXCEPT ![info[1]].info = d.info], d.decoded,
                   [app EXCEPT
                      !.dbg_coherent_count = U32Of(@ + 1),
                      !.dbg_last_signal_len = adv.len,
                      !.dbg_last_signal_dur = cp1.short_pulse_dur,
                      !.dbg_decode_try_count = U32Of(@ + 1),
                      !.dbg_decode_ok_count =
                          IF d.decoded THEN U32Of(@ + 1) ELSE @])
        \* Lines 150-153.
        Centered(adv, fill, info, cp1, cp2, heap1) ==
            Decoded(adv, info, cp1, cp2, heap1,
                    decode_signal(cp2, adv.len,
                                  [init_msg_info EXCEPT
                                     !.short_pulse_dur = cp1.short_pulse_dur],
                                  fill, dec.ext))
        \* Lines 145-149.
        Allocated(adv, fill, cp1, heap1) ==
            Centered(adv, fill, << Len(heap1) >>, cp1,
                     raw_samples_center(cp1, adv.i), heap1)
        Found(adv) ==
            /\ adv.found
            /\ \E fill \in HeapFill :
                 Allocated(adv, fill,
                           [copy[1] EXCEPT !.short_pulse_dur = adv.spd],
                           AllocMsgInfo(msgs))
    IN  /\ pc = "scan"
        /\ Found(ScanAdvance(copy[1], scan.i, scan.min_duration))
        /\ UNCHANGED << RawSamples, file, pc, taken, radio, dec >>

\* scan_for_signal, lines 137 and 177: the iterations that find no further
\* run, and the release of the copy.
ScanEnd ==
    LET Ended(adv) ==
            /\ ~adv.found
            /\ scan' = [scan EXCEPT !.i = adv.i]
    IN  /\ pc = "scan"
        /\ Ended(ScanAdvance(copy[1], scan.i, scan.min_duration))
        /\ copy' = NULL
        /\ pc' = "post"
        /\ UNCHANGED << RawSamples, DetectedSamples, app, msgs, file, taken,
                        radio, dec >>

\* timer_callback, lines 209-235.
TimerExit ==
    LET \* Lines 226-232.
        Switched(app1, next) ==
            [app1 EXCEPT !.mod_cycle_counter = 0,
                         !.modulation = next,
                         !.radio_modulation = next]
        \* Lines 222-234.
        Cycled(app1) ==
            IF ~app1.mod_auto_cycle THEN app1
            ELSE IF app1.mod_cycle_counter + 1 < 24
            THEN [app1 EXCEPT !.mod_cycle_counter = @ + 1]
            ELSE Switched(app1, next_tpms_modulation(app1.modulation))
        \* Lines 211-219.
        Consumed(consume, r) ==
            /\ app' = Cycled(IF consume THEN ConsumeDecoded(app, r.list)
                             ELSE app)
            /\ file' = IF consume THEN r.file ELSE file
            /\ msgs' = IF consume THEN free_msg_info(msgs, app.msg_info)
                       ELSE msgs
            /\ DetectedSamples' = IF consume
                                  THEN raw_samples_reset(DetectedSamples)
                                  ELSE DetectedSamples
    IN  /\ pc = "post"
        /\ Consumed(app.signal_decoded /\ app.msg_info # NULL,
                    tpms_extract_and_store(app.sensor_list, file,
                                           Deref(msgs, app.msg_info)))
        /\ pc' = "idle"
        /\ scan' = [NoScan EXCEPT !.scans = scan.scans,
                                  !.failures = scan.failures,
                                  !.ticks = scan.ticks,
                                  !.arrived = scan.arrived]
        /\ UNCHANGED << RawSamples, copy, taken, radio, dec >>

\* The radio interrupt: raw_samples_add of the next pulse.
RadioAppend ==
    /\ radio # <<>>
    /\ pc \in {"idle", "scan", "post"}
    /\ RawSamples' = raw_samples_add(RawSamples, Head(radio).level,
                                     Head(radio).dur)
    /\ radio' = Tail(radio)
    /\ scan' = [scan EXCEPT !.arrived = @ + 1]
    /\ UNCHANGED << DetectedSamples, copy, app, msgs, file, pc, taken, dec >>

\* reset_current_signal, called by the shell between two timer callbacks.
ResetCurrentSignal ==
    /\ pc = "idle"
    /\ app' = [app EXCEPT !.signal_bestlen = 0, !.signal_offset = 0,
                          !.signal_decoded = FALSE, !.msg_info = NULL]
    /\ DetectedSamples' = raw_samples_reset(DetectedSamples)
    /\ RawSamples' = raw_samples_reset(RawSamples)
    /\ msgs' = free_msg_info(msgs, app.msg_info)
    /\ UNCHANGED << copy, file, pc, scan, taken, radio, dec >>

Next ==
    \/ TimerEntry
    \/ ScanCandidate
    \/ ScanEnd
    \/ TimerExit
    \/ RadioAppend
    \/ ResetCurrentSignal

Spec == Init /\ [][Next]_vars

(***************************************************************************)
(* Allocation failures.  Neither scan_for_signal (line 145) nor            *)
(* decode_signal (line 404) tests what malloc returns.  When it returns    *)
(* NULL the accesses through the pointer are undefined: they stop the      *)
(* program ("fault"), or the writes go nowhere and the reads return what   *)
(* the memory at that address holds ("ignored").                           *)
(***************************************************************************)
AllocFailures == {"info", "bitmap"}

NullAccess == {"fault", "ignored"}

\* decode_signal when the working bitmap is NULL and the accesses are
\* ignored: the decoders read the memory at address 0, which holds fill.
decode_signal_nobitmap(s, len, info, fill, ext) ==
    LET Looped(b, l) ==
            [decoded |-> l.decoded,
             info |-> DecodeFinish(l.decoded, l.info, b, fill)]
        Converted(b, c) ==
            Looped(b, DecodeLoop(1, b, c.bits, info, ext, <<>>))
    IN  Converted(UninitBuf(bitmap_size, fill), DecodeConvert(s, len, fill))

\* scan_for_signal, lines 141-176, for a candidate during which an
\* allocation fails.
ScanCandidateNoMem ==
    LET \* Lines 142-144 and 152.
        Counted(adv, failed) ==
            [app EXCEPT !.dbg_coherent_count = U32Of(@ + 1),
                        !.dbg_last_signal_len = adv.len,
                        !.dbg_last_signal_dur = adv.spd,
                        !.dbg_decode_try_count =
                            IF failed = "bitmap" THEN U32Of(@ + 1) ELSE @]
        Fault(adv, failed, cp1) ==
            /\ app' = Counted(adv, failed)
            /\ msgs' = IF failed = "bitmap" THEN AllocMsgInfo(msgs) ELSE msgs
            /\ copy' = << cp1 >>
            /\ scan' = [scan EXCEPT !.failed = failed, !.failures = @ + 1]
            /\ pc' = "crashed"
            /\ UNCHANGED DetectedSamples
        \* Lines 158-176.
        Decide(adv, failed, info, cp1, heap2, decoded, app1) ==
            /\ IF LatchCandidate(app.signal_decoded, app.signal_bestlen,
                                 adv.len, decoded)
               THEN /\ msgs' = free_msg_info(heap2, app.msg_info)
                    /\ app' = [app1 EXCEPT !.msg_info = info,
                                           !.signal_bestlen = adv.len,
                                           !.signal_decoded = decoded]
                    /\ DetectedSamples' =
                         raw_samples_center(
                           raw_samples_copy(DetectedSamples, cp1), adv.i)
               ELSE /\ msgs' = free_msg_info(heap2, info)
                    /\ app' = app1
                    /\ UNCHANGED DetectedSamples
            /\ copy' = << cp1 >>
            /\ scan' = [scan EXCEPT !.i = ScanStep(adv.i, adv.len),
                               !.failed = failed,
                                    !.failures = @ + 1]
            /\ pc' = pc
        \* Lines 153-154.
        Decoded(adv, failed, info, cp1, heap1, d) ==
            Decide(adv, failed, info, cp1,
                   IF info = NULL THEN heap1
                   ELSE [heap1 EXCEPT ![info[1]].info = d.info],
                   d.decoded,
                   [app EXCEPT
                      !.dbg_coherent_count = U32Of(@ + 1),
                      !.dbg_last_signal_len = adv.len,
                      !.dbg_last_signal_dur = adv.spd,
                      !.dbg_decode_try_count = U32Of(@ + 1),
                      !.dbg_decode_ok_count =
                          IF d.decoded THEN U32Of(@ + 1) ELSE @])
        Ignored(adv, failed, fill, cp1, cp2, info0) ==
            IF failed = "info"
            THEN Decoded(adv, failed, NULL, cp1, msgs,
                         decode_signal(cp2, adv.len, info0, fill, dec.ext))
            ELSE Decoded(adv, failed, << Len(msgs) + 1 >>, cp1,
                         AllocMsgInfo(msgs),
                         decode_signal_nobitmap(cp2, adv.len, info0, fill,
                                                dec.ext))
        Failed(adv, failed, outcome, fill, cp1) ==
            IF outcome = "fault" THEN Fault(adv, failed, cp1)
            ELSE Ignored(adv, failed, fill, cp1,
                         raw_samples_center(cp1, adv.i),
                         [init_msg_info EXCEPT
                            !.short_pulse_dur = cp1.short_pulse_dur])
        Found(adv) ==
            /\ adv.found
            /\ \E failed \in AllocFailures, outcome \in NullAccess,
                  fill \in HeapFill :
                 /\ outcome = "fault" => fill = 0
                 /\ Failed(adv, failed, outcome, fill,
                           [copy[1] EXCEPT !.short_pulse_dur = adv.spd])
    IN  /\ pc = "scan"
        /\ scan.failures < MaxAllocFailures
        /\ Found(ScanAdvance(copy[1], scan.i, scan.min_duration))
        /\ UNCHANGED << RawSamples, file, taken, radio, dec >>

NextNoMem ==
    \/ Next
    \/ ScanCandidateNoMem

SpecNoMem == Init /\ [][NextNoMem]_vars

(***************************************************************************)
(* The sensor list over a sequence of decoded messages.  A reception is a  *)
(* timer tick whose scan has latched a decoded message; the same tick      *)
(* consumes it (TimerExit).                                                *)
(***************************************************************************)
MaxReceptions == 2

\* tpms_sensor_list_clear.
tpms_sensor_list_clear(list) == <<>>

\* The tire IDs received.
SensorIds == { <<1, 2, 3, 4>>, <<1, 2, 3, 5>>, <<1, 2, 3>> }

\* The fields a decoder emitted for a reading: the ID, the pressure as
\* "kpa", "psi" or "none", the temperature or not; v tells two readings
\* apart.
ReadingFields(id, pressure, temperature, v) ==
    LET WithTemp(fs) ==
            IF temperature THEN fieldset_add_int(fs, "Temperature C", 20 + v, 8)
            ELSE fs
        WithPressure(fs) ==
            IF pressure = "kpa"
            THEN fieldset_add_float(fs, "Pressure kpa", 22000 + 1000 * v, 2)
            ELSE IF pressure = "psi"
            THEN fieldset_add_float(fs, "Pressure psi", 3200 + 100 * v, 1)
            ELSE fs
    IN  WithTemp(WithPressure(
            fieldset_add_bytes(fieldset_new, "Tire ID", id, Len(id) * 2)))

\* The decoded messages a scan may leave behind: readings, a message
\* without a tire ID and one whose tire ID is no byte field.
SensorMessages ==
    { [init_msg_info EXCEPT !.decoder = "GMTPMSDecoder",
                            !.fieldset = ReadingFields(r[1], r[2], r[3], r[4])] :
        r \in SensorIds \X {"kpa", "psi", "none"} \X BOOLEAN \X {1, 2} }
    \cup
    { [init_msg_info EXCEPT !.decoder = "GMTPMSDecoder",
                            !.fieldset =
                                fieldset_add_float(fieldset_new,
                                                   "Pressure kpa", 22000, 2)],
      [init_msg_info EXCEPT !.decoder = "GMTPMSDecoder",
                            !.fieldset =
                                fieldset_add_hex(fieldset_new, "Tire ID",
                                                 4660, 16)] }

\* The sensor list after n sensors with different IDs were received.
SensorsAfter(n) ==
    LET Body(t, k) ==
            [t EXCEPT !.list =
                tpms_extract_and_store(
                    t.list, <<>>,
                    [init_msg_info EXCEPT
                       !.decoder = "GMTPMSDecoder",
                       !.fieldset = ReadingFields(<<k, 2, 3, 4>>, "kpa",
                                                  TRUE, 0)]).list]
    IN  ForLoop(Body, [brk |-> FALSE, list |-> <<>>], 1, n + 1).list

\* The application with an empty list, a list with one free slot or a
\* full list.
InitSensors ==
    \E n \in {0, TPMS_MAX_SENSORS - 1, TPMS_MAX_SENSORS} :
        /\ RawSamples = raw_samples_alloc
        /\ DetectedSamples = raw_samples_alloc
        /\ copy = NULL
        /\ app = [protoview_app_alloc(0) EXCEPT !.sensor_list = SensorsAfter(n)]
        /\ msgs = <<>>
        /\ file = <<>>
        /\ pc = "idle"
        /\ scan = NoScan
        /\ taken = raw_samples_alloc
        /\ radio = <<>>
        /\ dec = NoDec

\* timer_callback, lines 193-207, when scan_for_signal latches a decoded
\* message.
SensorsReceive ==
    /\ pc = "idle"
    /\ scan.scans < MaxReceptions
    /\ \E m \in SensorMessages :
         /\ msgs' = Append(msgs, [live |-> TRUE, frees |-> 0, info |-> m])
         /\ app' = [app EXCEPT !.msg_info = << Len(msgs) + 1 >>,
                               !.signal_decoded = TRUE,
                               !.signal_bestlen = minlen + 1]
    /\ scan' = [scan EXCEPT !.scans = @ + 1, !.ticks = @ + 1,
                            !.context = "timer"]
    /\ pc' = "post"
    /\ UNCHANGED << RawSamples, DetectedSamples, copy, file, taken, radio,
                    dec >>

\* The list view clears the list between two timer ticks.
SensorsClear ==
    /\ pc = "idle"
    /\ app.sensor_list # <<>>
    /\ app' = [app EXCEPT !.sensor_list = tpms_sensor_list_clear(@)]
    /\ UNCHANGED << RawSamples, DetectedSamples, copy, msgs, file, pc, scan,
                    taken, radio, dec >>

NextSensors ==
    \/ SensorsReceive
    \/ TimerExit
    \/ SensorsClear

SpecSensors == InitSensors /\ [][NextSensors]_vars

(***************************************************************************)
(* decode_signal, one decoder at a time, on the first candidate that       *)
(* scan_for_signal finds in the reception of one transmission.             *)
(***************************************************************************)
\* The transmissions received, what the heap holds and what the decoders
\* without source do.
DecodeFixtures ==
    {f \in [kind : Kinds, corrupt : Corruptions, pad : {0, 3},
            fill : HeapFill, ext : ExtChoices] :
        /\ f.pad = 0 \/ f.corrupt \in {"none", "badcheck"}
        /\ f.ext = NoExt \/
           (f.kind \in {"PMV", "GM"} /\ f.corrupt = "none" /\ f.pad = 0)}

\* scan_for_signal, lines 129-152, up to the call of decode_signal.
InitDecode ==
    LET min_duration ==
            ProtoViewModulations[find_tpms_modulation + 1].duration_filter
        Start(f, src, adv, s, info) ==
            /\ adv.found
            /\ RawSamples = src
            /\ DetectedSamples = raw_samples_alloc
            /\ copy = << s >>
            /\ app = [protoview_app_alloc(0) EXCEPT
                        !.signal_last_scan_idx = src.idx,
                        !.dbg_scan_count = 1,
                        !.dbg_coherent_count = 1,
                        !.dbg_last_signal_len = adv.len,
                        !.dbg_last_signal_dur = adv.spd,
                        !.dbg_decode_try_count = 1]
            /\ msgs = AllocMsgInfo(<<>>)
            /\ file = <<>>
            /\ pc = "dec_convert"
            /\ scan = [NoScan EXCEPT !.i = adv.i, !.scans = 1, !.ticks = 1,
                                     !.context = "timer",
                                     !.min_duration = min_duration]
            /\ taken = src
            /\ radio = <<>>
            /\ dec = [NoDec EXCEPT !.s = s, !.len = adv.len, !.info = info,
                                   !.entry = info, !.ext = f.ext,
                                   !.fill = f.fill]
        Searched(f, src, cp0, adv) ==
            Start(f, src, adv,
                  raw_samples_center([cp0 EXCEPT !.short_pulse_dur = adv.spd],
                                     adv.i),
                  [init_msg_info EXCEPT !.short_pulse_dur = adv.spd])
        Copied(f, src, cp0) ==
            Searched(f, src, cp0, ScanAdvance(cp0, 0, min_duration))
        Received(f, src) == Copied(f, src, ScanSnapshot(src))
    IN  \E f \in DecodeFixtures :
          Received(f, Prefill(Frame(f.kind, f.corrupt, f.pad) \o Gap))

\* decode_signal, lines 404-407 and 420-421.
DecConvert ==
    LET Converted(c) ==
            dec' = [dec EXCEPT !.bitmap = c.b, !.bits = c.bits, !.j = 1,
                               !.decoded = FALSE]
    IN  /\ pc = "dec_convert"
        /\ Converted(DecodeConvert(dec.s, dec.len, dec.fill))
        /\ pc' = "dec_loop"
        /\ UNCHANGED << RawSamples, DetectedSamples, copy, app, msgs, file,
                        scan, taken, radio >>

\* decode_signal, lines 422-433: one iteration of the loop.
DecTry ==
    LET Tried(r) ==
            /\ dec' = [dec EXCEPT
                         !.entry = dec.info,
                         !.ret = r.info,
                         !.info = r.info,
                         !.decoded = r.ok,
                         !.tried = Append(@, [name |-> Decoders[dec.j],
                                              ok |-> r.ok]),
                         !.j = IF r.ok THEN @ ELSE @ + 1]
            /\ pc' = IF r.ok \/ dec.j = Len(Decoders) THEN "dec_finish"
                     ELSE "dec_loop"
    IN  /\ pc = "dec_loop"
        /\ dec.j <= Len(Decoders)
        /\ Tried(DecodeTry(dec.j, dec.bitmap, dec.bits, dec.info, dec.ext))
        /\ UNCHANGED << RawSamples, DetectedSamples, copy, app, msgs, file,
                        scan, taken, radio >>

\* decode_signal, lines 435-448.
DecFinish ==
    /\ pc = "dec_finish"
    /\ dec' = [dec EXCEPT
                 !.info = DecodeFinish(dec.decoded, dec.info, dec.bitmap,
                                       dec.fill)]
    /\ pc' = "dec_done"
    /\ UNCHANGED << RawSamples, DetectedSamples, copy, app, msgs, file, scan,
                    taken, radio >>

NextDecode ==
    \/ DecConvert
    \/ DecTry
    \/ DecFinish

SpecDecode == InitDecode /\ [][NextDecode]_vars

(***************************************************************************)
(* The bitmap primitives and the line-code converters of signal.c, each    *)
(* called once on small buffers.  dec holds the call: its name, its        *)
(* arguments and, once it returned, what it returned.                      *)
(***************************************************************************)
\* The length in bytes of the buffers.
BitmapBytes == 3

\* The buffer that holds the bytes given; the memory behind it holds fill.
BufOfBytes(bytes, fill) ==
    [mem |-> [k \in 1..(8 * Len(bytes)) |->
                 (bytes[(k - 1) \div 8 + 1] \div Pow2(7 - ((k - 1) % 8))) % 2],
     fill |-> fill, size |-> Len(bytes)]

\* n bytes without a period, n bytes of Manchester code, n bytes of ones.
MixedBytes(n) == [k \in 1..n |-> << 178, 77, 113, 142 >>[((k - 1) % 4) + 1]]
ManchesterBytes(n) == [k \in 1..n |-> << 89, 166, 101 >>[((k - 1) % 3) + 1]]
OnesBytes(n) == [k \in 1..n |-> 255]

\* The patterns sought, as bitmap_match_bits takes them.
BitPatterns == { << 1, 0 >>, << 0, 0, 0 >>, << 1, 1, 0, 1 >> }

\* The zero and one patterns of the line codes.
LineCodes == { [zero |-> << 0, 1 >>, one |-> << 1, 0 >>],
               [zero |-> << 1, 0 >>, one |-> << 0, 1 >>],
               [zero |-> << 1, 1, 0, 0 >>, one |-> << 1, 0, 1, 0 >>] }

CopyCalls ==
    {c \in [op : {"bitmap_copy"},
            d : {ZeroBuf(BitmapBytes), BufOfBytes(OnesBytes(BitmapBytes), 0)},
            dlen : {BitmapBytes},
            doff : 0..(8 * BitmapBytes - 1),
            s : {BufOfBytes(MixedBytes(BitmapBytes), f) : f \in HeapFill},
            slen : {BitmapBytes},
            soff : 0..(8 * BitmapBytes - 1),
            count : 0..(8 * BitmapBytes + 1)] :
        /\ c.doff + c.count <= 8 * c.dlen + 1
        /\ c.soff + c.count <= 8 * c.slen + 8}

SeekCalls ==
    [op : {"bitmap_seek_bits"},
     b : {BufOfBytes(MixedBytes(BitmapBytes), 0),
          BufOfBytes(OnesBytes(BitmapBytes), 0)},
     blen : {BitmapBytes},
     startpos : 0..(8 * BitmapBytes),
     maxbits : 0..(8 * BitmapBytes + 1),
     bits : BitPatterns]

MatchCalls ==
    [op : {"bitmap_match_bits"},
     b : {BufOfBytes(MixedBytes(BitmapBytes), f) : f \in HeapFill} \cup
         {BufOfBytes(OnesBytes(BitmapBytes), f) : f \in HeapFill},
     blen : {BitmapBytes},
     bitpos : 0..(8 * BitmapBytes + 1),
     bits : BitPatterns]

LineCodeCalls ==
    [op : {"convert_from_line_code"},
     buf : {ZeroBuf(2)},
     buflen : {1, 2},
     bits : {BufOfBytes(ManchesterBytes(BitmapBytes), f) : f \in HeapFill},
     len : {BitmapBytes},
     off : 0..(8 * BitmapBytes),
     code : LineCodes]

DiffManchesterCalls ==
    [op : {"convert_from_diff_manchester"},
     buf : {ZeroBuf(2)},
     buflen : {1, 2},
     bits : {BufOfBytes(ManchesterBytes(BitmapBytes), f) : f \in HeapFill},
     len : {BitmapBytes},
     off : 0..(8 * BitmapBytes),
     previous : BOOLEAN]

DiffManchesterDecodeCalls ==
    [op : {"diff_manchester_decode"},
     buf : {ZeroBuf(2)},
     buflen : {1, 2},
     bits : {BufOfBytes(ManchesterBytes(BitmapBytes), f) : f \in HeapFill},
     numbytes : {BitmapBytes},
     off : 0..(8 * BitmapBytes),
     max_bits : {4, 8 * BitmapBytes}]

\* The length of the bit sequences encoded.
MaxBits == 6

BitSeqs(n) == UNION {[1..m -> {0, 1}] : m \in 0..n}

\* The buffer of capacity total that holds the pulses from its index idx on,
\* as raw_samples_center leaves a signal, and rest everywhere else.
SamplesAt(pulses, idx, total, rest) ==
    [samples |-> [k \in 1..total |->
                     IF (k - 1 - idx) % total < Len(pulses)
                     THEN pulses[((k - 1 - idx) % total) + 1]
                     ELSE rest],
     idx |-> idx, total |-> total, short_pulse_dur |-> 0]

\* A bit sequence sent as pulses and converted at the rate it was sent at.
NrzCalls ==
    {[op |-> "convert_signal_to_bits", test |-> "round trip",
      b |-> UninitBuf(2, f), blen |-> 2,
      s |-> SamplesAt(PulsesOfBits(seq, unit), h, RAW_SAMPLES_NUM,
                      [level |-> TRUE, dur |-> 7 * unit]),
      idx |-> 0, count |-> Len(PulsesOfBits(seq, unit)), rate |-> unit,
      seq |-> seq] :
        seq \in BitSeqs(MaxBits), unit \in {1, 50, 333},
        h \in {0, RAW_SAMPLES_NUM - 2}, f \in HeapFill}

\* The buffer that holds the bits given (a whole number of bytes).
BufOfBits(bits, fill) ==
    [mem |-> bits, fill |-> fill, size |-> Len(bits) \div 8]

\* The ideal Manchester code of a bit sequence, 0 sent as 01 and 1 as 10;
\* when bad > 0 the window of bit number bad holds twice the level v.
ManchesterCode(seq, bad, v) ==
    [k \in 1..(2 * Len(seq)) |->
        IF (k + 1) \div 2 = bad THEN v
        ELSE IF k % 2 = 1 THEN seq[(k + 1) \div 2]
        ELSE 1 - seq[(k + 1) \div 2]]

\* The byte streams sent: up to BitmapBytes - 1 bytes.
ByteStreams ==
    UNION {[1..n -> {0, 255, 165, 60}] : n \in 0..(BitmapBytes - 1)}

\* A byte stream in Manchester code, intact or with one window that is no
\* code word, decoded into a destination of buflen bytes.
ManchesterCalls ==
    {c \in [op : {"convert_from_line_code"},
            stream : ByteStreams,
            bad : {0, 1, 6, 8, 9, 16},
            v : {0, 1},
            buflen : 1..BitmapBytes,
            fills : HeapFill \X HeapFill] :
        /\ c.bad <= 8 * Len(c.stream)
        /\ c.bad = 0 => c.v = 0}

\* The arguments of the call.
ManchesterArgs(c) ==
    [op |-> c.op, stream |-> c.stream, bad |-> c.bad,
     buf |-> UninitBuf(c.buflen, c.fills[1]), buflen |-> c.buflen,
     bits |-> BufOfBits(ManchesterCode(BitsOfBytes(c.stream), c.bad, c.v),
                        c.fills[2]),
     len |-> 2 * Len(c.stream), off |-> 0,
     code |-> [zero |-> << 0, 1 >>, one |-> << 1, 0 >>]]

\* The half-bits given, the levels inverted from number from on: the line as
\* sent with the transition before that half-bit left out.
InvertedFrom(halves, from) ==
    [k \in 1..Len(halves) |-> IF k >= from THEN 1 - halves[k] ELSE halves[k]]

\* The half-bits given, followed by the line idle at its last level up to
\* the end of the byte and for idle bytes more.
IdleAfter(halves, idle) ==
    [k \in 1..(8 * ((Len(halves) + 7) \div 8 + idle)) |->
        IF k <= Len(halves) THEN halves[k] ELSE halves[Len(halves)]]

\* A bit sequence in differential Manchester code, intact or with the
\* mid-bit transition of the cell number bad left out, decoded with a limit
\* of max_bits.
DiffCalls ==
    {c \in [op : {"diff_manchester_decode"},
            seq : BitSeqs(MaxBits),
            c0 : {0, 1},
            bad : {0, 1, 3},
            limit : {"length", "one less", "two more"},
            idle : {0, 1},
            fill : HeapFill] :
        /\ c.bad <= Len(c.seq)
        /\ c.limit = "one less" => Len(c.seq) > 0}

\* The arguments of the call.
DiffArgs(c) ==
    [op |-> c.op, seq |-> c.seq, bad |-> c.bad,
     buf |-> UninitBuf(2, c.fill), buflen |-> 2,
     bits |-> BufOfBits(
                IdleAfter(IF c.bad = 0 THEN DiffManchesterBits(c.seq, c.c0)
                          ELSE InvertedFrom(DiffManchesterBits(c.seq, c.c0),
                                            2 * c.bad),
                          c.idle),
                c.fill),
     numbytes |-> (2 * Len(c.seq) + 8) \div 8 + c.idle,
     off |-> 0,
     max_bits |-> IF c.limit = "length" THEN Len(c.seq)
                  ELSE IF c.limit = "one less" THEN Len(c.seq) - 1
                  ELSE Len(c.seq) + 2]

\* The call of a decoder on the bitmap that holds frame, for a message
\* whose payload is b.
DecodeArgs(decoder, b, frame, fill) ==
    [op |-> "decode", decoder |-> decoder, b |-> b,
     bits |-> BufOfBits(IdleAfter(frame, 1), fill),
     numbytes |-> (Len(frame) + 7) \div 8 + 1,
     numbits |-> Len(frame)]

\* PMV-107J payloads b[0..8]: the check byte and the inverted pressure are
\* right or wrong.
PmvPayloads ==
    {[k \in 1..9 |->
        IF k = 1 THEN c.b0
        ELSE IF k <= 5 THEN c.id[k - 1]
        ELSE IF k = 6 THEN 200
        ELSE IF k = 7 THEN 55 + c.xor
        ELSE IF k = 8 THEN c.b7
        ELSE (crc8(<< c.b0 >> \o c.id \o << 200, 55 + c.xor, c.b7 >>, 0, 19)
              + c.crc) % 256] :
        c \in [b0 : {0, 3},
               id : {<< 18, 52, 86, 120 >>, << 255, 0, 165, 1 >>},
               xor : {0, 1}, b7 : {90, 0}, crc : {0, 1}]}

PmvCalls ==
    {DecodeArgs("PMV107JTPMSDecoder", b,
                [k \in 1..pad |-> 0] \o Preamble("PMV") \o
                DiffManchesterBits(<< (b[1] \div 2) % 2, b[1] % 2 >> \o
                                   BitsOfBytes(Tail(b)), 1),
                fill) :
        b \in PmvPayloads, pad \in {0, 3}, fill \in HeapFill}

\* Audi payloads b[0..7], the check byte right or wrong.
AudiPayloads ==
    {Append(b, (crc8(b, 170, 47) + e) % 256) :
        b \in {<< 2, 18, 35, 52, 69, 90, 70 >>,
               << 0, 255, 0, 165, 1, 0, 52 >>},
        e \in {0, 1}}

\* An Audi message followed by more windows of valid Manchester code.
AudiCalls ==
    {DecodeArgs("BMWTPMSDecoder", b,
                [k \in 1..pad |-> 0] \o Preamble("Audi") \o
                ManchesterBits(BitsOfBytes(b) \o [k \in 1..more |-> k % 2],
                               << 1, 0 >>, << 0, 1 >>),
                fill) :
        b \in AudiPayloads, more \in {0, 8, 23, 24, 30}, pad \in {0, 3},
        fill \in HeapFill}

\* Schrader SMD3MA4 payloads raw[0..4], 39 bits each: the pressure at, below
\* and above 500, all bits zero, and zero in all bits but some of the last 7.
SchraderPayloads ==
    {PayloadSMD3MA4, << 42, 188, 222, 15, 160 >>, << 42, 188, 222, 15, 168 >>,
     << 42, 188, 222, 31, 254 >>, << 0, 0, 0, 0, 0 >>, << 0, 0, 0, 0, 8 >>,
     << 0, 0, 0, 0, 2 >>, << 0, 0, 0, 0, 254 >>, << 0, 0, 0, 1, 0 >>}

SchraderCalls ==
    {DecodeArgs("SchraderSMD3MA4TPMSDecoder", b,
                [k \in 1..pad |-> 0] \o Preamble("SMD3MA4") \o
                ManchesterBits(SubSeq(BitsOfBytes(b), 1, 39),
                               << 0, 1 >>, << 1, 0 >>),
                fill) :
        b \in SchraderPayloads, pad \in {0, 3}, fill \in HeapFill}

\* One pulse of dur microseconds converted at the given rate, followed by a
\* pulse of the other level that lasts one unit: whole units, exact halves,
\* durations beyond 1024 units, the rate 0.
RoundingCalls ==
    {[op |-> "convert_signal_to_bits", test |-> "rounding",
      b |-> UninitBuf(2, f), blen |-> 2,
      s |-> SamplesAt(<< [level |-> lv, dur |-> dur],
                         [level |-> ~lv, dur |-> rate] >>,
                      0, RAW_SAMPLES_NUM, [level |-> TRUE, dur |-> 7 * rate]),
      idx |-> 0, count |-> 2, rate |-> rate, level |-> lv, dur |-> dur] :
        dur \in {0, 1, 2, 3, 4, 5, 24, 25, 26, 75, 125, 1024, 1025, 2047,
                 2049, 4000, 60000},
        rate \in {0, 1, 2, 3, 50}, lv \in BOOLEAN, f \in HeapFill}

\* Ring buffers of several capacities, centred at idx, whose pulses alternate
\* in level and last one, two or three units in a pattern that no rotation
\* of the ring preserves, with a run of len pulses to widen.
Capacities == {RAW_SAMPLES_NUM, 192, 255}

RingOf(total, idx, unit) ==
    [samples |-> [k \in 1..total |->
                     [level |-> (k - 1) % 2 = 0,
                      dur |-> unit * (1 + ((((k - 1) * (k - 1)) \div 5) % 3))]],
     idx |-> idx, total |-> total, short_pulse_dur |-> unit]

WideningCalls ==
    {[op |-> "decode_signal", s |-> RingOf(total, idx, 50), len |-> len,
      fill |-> f] :
        total \in Capacities, idx \in {0, 5, 150}, len \in {19, 40},
        f \in HeapFill}

\* Receptions the timer tick finds complete, and one it finds part way: the
\* Schrader frame after a longer preamble, its last 6 data bits not yet
\* received.
CandidateReceptions ==
    [complete |-> Frame("SMD3MA4", "none", 3) \o Gap,
     toyota |-> Frame("PMV", "none", 0) \o Gap,
     partial |-> PulsesOfBits([k \in 1..16 |-> (k - 1) % 2] \o
                              FrameBits("SMD3MA4", "truncated", 0),
                              PulseUnit)]

\* scan_for_signal, lines 129-152, on the first candidate of a reception:
\* the arguments of the decode_signal it calls.
ScanDecode(reception, pulses, fill) ==
    LET min_duration ==
            ProtoViewModulations[find_tpms_modulation + 1].duration_filter
        Found(cp0, adv) ==
            [op |-> "scan_decode", reception |-> reception,
             s |-> raw_samples_center(
                       [cp0 EXCEPT !.short_pulse_dur = adv.spd], adv.i),
             len |-> adv.len,
             info |-> [init_msg_info EXCEPT !.short_pulse_dur = adv.spd],
             fill |-> fill]
        Copied(cp0) == Found(cp0, ScanAdvance(cp0, 0, min_duration))
    IN  Copied(ScanSnapshot(Prefill(pulses)))

CandidateCalls ==
    {ScanDecode(r, CandidateReceptions[r], f) :
        r \in DOMAIN CandidateReceptions, f \in HeapFill}

\* The bitmap and the bit count convert_signal_to_bits leaves when the
\* pulses amount to more bits than the bitmap has: the bits beyond numbytes
\* bytes are counted but not stored.
EdgeArgs(b, frame, numbytes, fill) ==
    [op |-> "decode_edge", b |-> b,
     bits |-> BufOfBits(SubSeq(frame, 1, Min2(Len(frame), numbytes * 8)),
                        fill),
     numbytes |-> numbytes, numbits |-> Len(frame)]

\* Schrader frames that end at the last bit of a bitmap of EdgeBytes bytes
\* or one bit after it.
EdgeBytes == 12

EdgeCalls ==
    {EdgeArgs(b,
              [k \in 1..(EdgeBytes * 8 - 94 + over) |-> 0] \o
              Preamble("SMD3MA4") \o
              ManchesterBits(SubSeq(BitsOfBytes(b), 1, 39),
                             << 0, 1 >>, << 1, 0 >>),
              EdgeBytes, fill) :
        b \in {PayloadSMD3MA4, << 42, 188, 222, 229, 146 >>},
        over \in {0, 1}, fill \in HeapFill}

\* A valid PMV-107J frame received after bits that hold the pattern 111110.
LaterCalls ==
    {[DecodeArgs("PMV107JTPMSDecoder", PayloadPMV,
                 lead \o FrameBits("PMV", "none", 0), fill)
        EXCEPT !.op = "decode_later"] :
        lead \in {<< 1, 1, 1, 1, 1, 0, 0, 0 >>,
                  << 1, 1, 1, 1, 1, 0, 1, 0, 0, 1, 0, 0 >>},
        fill \in HeapFill}

\* The Hyundai/Kia decoder called with fewer bits than a frame has, on a
\* bitmap that holds a frame from its first bit on: what an earlier
\* decode_signal left in the block malloc returns.
ShortCalls ==
    {[DecodeArgs("HyundaiKiaTPMSDecoder", PayloadHyundaiKia,
                 FrameBits("HyundaiKia", "none", 0), fill)
        EXCEPT !.op = "decode_short", !.numbits = n] :
        n \in {0, 1, 15, 16, 100, 175, 176}, fill \in HeapFill}

BitmapCalls ==
    CopyCalls \cup SeekCalls \cup MatchCalls \cup LineCodeCalls \cup
    DiffManchesterCalls \cup DiffManchesterDecodeCalls \cup NrzCalls \cup
    {ManchesterArgs(c) : c \in ManchesterCalls} \cup
    {DiffArgs(c) : c \in DiffCalls} \cup PmvCalls \cup AudiCalls \cup
    SchraderCalls \cup RoundingCalls \cup WideningCalls \cup
    CandidateCalls \cup EdgeCalls \cup LaterCalls \cup ShortCalls

InitBitmap ==
    \E c \in BitmapCalls :
        /\ RawSamples = raw_samples_alloc
        /\ DetectedSamples = raw_samples_alloc
        /\ copy = NULL
        /\ app = protoview_app_alloc(0)
        /\ msgs = <<>>
        /\ file = <<>>
        /\ pc = "call"
        /\ scan = NoScan
        /\ taken = raw_samples_alloc
        /\ radio = <<>>
        /\ dec = [op |-> c.op, args |-> c, out |-> <<>>]

\* The call returns v.
Returns(v) ==
    /\ dec' = [dec EXCEPT !.out = << v >>]
    /\ pc' = "return"
    /\ UNCHANGED << RawSamples, DetectedSamples, copy, app, msgs, file, scan,
                    taken, radio >>

BitmapCopy ==
    /\ pc = "call"
    /\ dec.op = "bitmap_copy"
    /\ LET Call(c) == bitmap_copy_run(c.d, c.dlen, c.doff, c.s, c.slen,
                                      c.soff, c.count)
       IN  Returns(Call(dec.args))

BitmapSeekBits ==
    /\ pc = "call"
    /\ dec.op = "bitmap_seek_bits"
    /\ LET Call(c) == bitmap_seek_bits(c.b, c.blen, c.startpos, c.maxbits,
                                       c.bits)
       IN  Returns(Call(dec.args))

BitmapMatchBits ==
    /\ pc = "call"
    /\ dec.op = "bitmap_match_bits"
    /\ LET Call(c) == bitmap_match_bits(c.b, c.blen, c.bitpos, c.bits)
       IN  Returns(Call(dec.args))

ConvertFromLineCode ==
    /\ pc = "call"
    /\ dec.op = "convert_from_line_code"
    /\ LET Call(c) == convert_from_line_code(c.buf, c.buflen, c.bits, c.len,
                                             c.off, c.code.zero, c.code.one)
       IN  Returns(Call(dec.args))

ConvertFromDiffManchester ==
    /\ pc = "call"
    /\ dec.op = "convert_from_diff_manchester"
    /\ LET Call(c) == convert_from_diff_manchester(c.buf, c.buflen, c.bits,
                                                   c.len, c.off, c.previous)
       IN  Returns(Call(dec.args))

DiffManchesterDecode ==
    /\ pc = "call"
    /\ dec.op = "diff_manchester_decode"
    /\ LET Call(c) == diff_manchester_decode(c.buf, c.buflen, c.bits,
                                             c.numbytes, c.off, c.max_bits)
       IN  Returns(Call(dec.args))

ConvertSignalToBits ==
    /\ pc = "call"
    /\ dec.op = "convert_signal_to_bits"
    /\ LET Call(c) == convert_signal_to_bits(c.b, c.blen, c.s, c.idx, c.count,
                                             c.rate)
       IN  Returns(Call(dec.args))

\* decode_signal, lines 404-407: the conversion of the widened run.
DecodeSignalConvert ==
    /\ pc = "call"
    /\ dec.op = "decode_signal"
    /\ LET Call(c) == DecodeConvert(c.s, c.len, c.fill)
       IN  Returns(Call(dec.args))

\* decode_signal, line 428: the Schrader SMD3MA4 decoder called on a
\* bitmap that is full.
DecodeAtEdge ==
    /\ pc = "call"
    /\ dec.op = "decode_edge"
    /\ LET Call(c) ==
               SchraderSMD3MA4TPMSDecoder(c.bits, c.numbytes, c.numbits,
                                          init_msg_info)
       IN  Returns(Call(dec.args))

\* decode_signal, line 428: the PMV-107J decoder called on a bitmap whose
\* frame is not the first thing received.
DecodeLater ==
    /\ pc = "call"
    /\ dec.op = "decode_later"
    /\ LET Call(c) ==
               PMV107JTPMSDecoder(c.bits, c.numbytes, c.numbits,
                                  init_msg_info)
       IN  Returns(Call(dec.args))

\* decode_signal, line 428: the Hyundai/Kia decoder called with the bit
\* count of a short candidate.
DecodeShort ==
    /\ pc = "call"
    /\ dec.op = "decode_short"
    /\ LET Call(c) ==
               HyundaiKiaTPMSDecoder(c.bits, c.numbytes, c.numbits,
                                     init_msg_info)
       IN  Returns(Call(dec.args))

\* The decode_signal that scan_for_signal calls on a candidate.
ScanDecodeCandidate ==
    /\ pc = "call"
    /\ dec.op = "scan_decode"
    /\ LET Call(c) == decode_signal(c.s, c.len, c.info, c.fill, NoExt)
       IN  Returns(Call(dec.args))

\* The decode callback of one decoder, on a fresh message info.
Decode ==
    /\ pc = "call"
    /\ dec.op = "decode"
    /\ LET Call(c) ==
               CASE c.decoder = "PMV107JTPMSDecoder" ->
                       PMV107JTPMSDecoder(c.bits, c.numbytes, c.numbits,
                                          init_msg_info)
                 [] c.decoder = "BMWTPMSDecoder" ->
                       BMWTPMSDecoder(c.bits, c.numbytes, c.numbits,
                                      init_msg_info)
                 [] c.decoder = "SchraderSMD3MA4TPMSDecoder" ->
                       SchraderSMD3MA4TPMSDecoder(c.bits, c.numbytes,
                                                  c.numbits, init_msg_info)
       IN  Returns(Call(dec.args))

NextBitmap ==
    \/ DecodeSignalConvert
    \/ DecodeShort
    \/ DecodeLater
    \/ DecodeAtEdge
    \/ ScanDecodeCandidate
    \/ Decode
    \/ ConvertSignalToBits
    \/ BitmapCopy
    \/ BitmapSeekBits
    \/ BitmapMatchBits
    \/ ConvertFromLineCode
    \/ ConvertFromDiffManchester
    \/ DiffManchesterDecode

SpecBitmap == InitBitmap /\ [][NextBitmap]_vars

(***************************************************************************)
(* The event loop of protoview_app_entry and the input handlers of the     *)
(* views.  The loop runs in the main thread, timer_callback in the timer   *)
(* service: a handler that writes several fields is run in as many steps   *)
(* as it needs for the timer callback to run in between.  dec holds the    *)
(* locals of the main thread.                                              *)
(***************************************************************************)
\* ProtoViewCurrentView, in the order of the enumeration.
Views == << "ViewTPMSList", "ViewTPMSDetail", "ViewFrequencySettings",
            "ViewModulationSettings" >>

SettingsViews == {"ViewFrequencySettings", "ViewModulationSettings"}

ViewIndex(view) == CHOOSE k \in 1..Len(Views) : Views[k] = view

\* The input events: the Back key held long ends the application and is
\* left out.
Inputs ==
    {in \in [type : {"InputTypePress", "InputTypeShort", "InputTypeLong",
                     "InputTypeRepeat"},
             key : {"InputKeyUp", "InputKeyDown", "InputKeyLeft",
                    "InputKeyRight", "InputKeyOk", "InputKeyBack"}] :
        ~(in.type = "InputTypeLong" /\ in.key = "InputKeyBack")}

\* The main thread: waiting for an input ("idle") or inside a handler; done
\* names the branch the last input took and seq tells two inputs apart.
NoUi == [ui |-> "idle", done |-> "", seq |-> 0]

\* view_exit_settings.
view_exit_settings(a) ==
    IF a.freq_mod_changed
    THEN [a EXCEPT !.radio_modulation = a.modulation,
                   !.freq_mod_changed = FALSE]
    ELSE a

\* app_switch_view.
app_switch_view(a, switchto) ==
    LET old == a.current_view
        newview ==
            IF switchto = "ViewGoNext"
            THEN Views[(ViewIndex(old) % Len(Views)) + 1]
            ELSE IF switchto = "ViewGoPrev"
            THEN Views[((ViewIndex(old) + Len(Views) - 2) % Len(Views)) + 1]
            ELSE switchto
        a1 == [a EXCEPT !.current_view = newview]
    IN  IF \/ old = "ViewFrequencySettings" /\ newview # "ViewModulationSettings"
           \/ old = "ViewModulationSettings" /\ newview # "ViewFrequencySettings"
        THEN view_exit_settings(a1)
        ELSE a1

\* process_input_settings, lines 107-110: the long OK press.
ToggleAutoCycle(a) ==
    [a EXCEPT !.mod_auto_cycle = ~a.mod_auto_cycle,
              !.mod_cycle_counter = 0,
              !.freq_mod_changed = TRUE]

\* process_input_settings, lines 149-160: the preset an Up or Down press
\* selects.
SelectedModulation(modid, key) ==
    LET count == Len(ProtoViewModulations)
    IN  IF key = "InputKeyUp"
        THEN (IF modid = 0 THEN count - 1 ELSE modid - 1)
        ELSE (modid + 1) % count

\* process_input_settings, lines 161-168, with auto-cycling left on.
ManualSelected_keeps_cycling(a) == [a EXCEPT !.freq_mod_changed = TRUE]

\* process_input_settings, lines 161-168: after app->modulation is written.
ManualSelected(a) ==
    [a EXCEPT !.mod_auto_cycle = FALSE, !.freq_mod_changed = TRUE]

\* process_input_settings up to the write of app->modulation, or to its
\* end: [app, ui |-> where the main thread stands, done].  The frequency
\* list of the frequency view belongs to the firmware: a press of Up or
\* Down there selects a frequency, which is no part of the state.
process_input_settings(a, in) ==
    IF in.type = "InputTypeLong" /\ in.key = "InputKeyOk"
    THEN [app |-> ToggleAutoCycle(a), ui |-> "idle", done |-> "toggle"]
    ELSE IF in.type = "InputTypePress"
    THEN IF in.key \notin {"InputKeyUp", "InputKeyDown"}
         THEN [app |-> a, ui |-> "idle", done |-> "ignored"]
         ELSE IF a.current_view = "ViewFrequencySettings"
         THEN [app |-> [a EXCEPT !.freq_mod_changed = TRUE], ui |-> "idle",
               done |-> "frequency"]
         ELSE [app |-> [a EXCEPT !.modulation =
                                    SelectedModulation(a.modulation, in.key)],
               ui |-> "select", done |-> "select"]
    ELSE [app |-> a, ui |-> "idle", done |-> "ignored"]

\* A slot of the sensor list after memset.
ZeroSensor ==
    [id |-> <<>>, id_len |-> 0, protocol |-> "", pressure_psi |-> 0,
     has_pressure |-> FALSE, temperature_f |-> 0, has_temperature |-> FALSE,
     rx_count |-> 0]

\* tpms_sensor_list_clear, line 19, and process_input_tpms_list, lines
\* 185-187: the memset of the slots, after list->count was set to 0.  Only
\* the slots below count are kept in the model.
ListCleared(a) ==
    [a EXCEPT !.sensor_list = [k \in 1..Len(@) |-> ZeroSensor],
              !.selected_sensor = 0,
              !.list_scroll_offset = 0]

\* process_input_tpms_list up to the write of list->count, or to its end.
process_input_tpms_list(a, in) ==
    LET count == Len(a.sensor_list)
        moved ==
            IF in.type \in {"InputTypeShort", "InputTypeRepeat"}
            THEN IF in.key = "InputKeyUp" /\ a.selected_sensor > 0
                 THEN [a EXCEPT !.selected_sensor = @ - 1]
                 ELSE IF in.key = "InputKeyDown" /\
                         a.selected_sensor < count - 1
                 THEN [a EXCEPT !.selected_sensor = @ + 1]
                 ELSE a
            ELSE a
    IN  IF in.type = "InputTypeShort" /\ in.key = "InputKeyOk"
        THEN [app |-> IF count > 0 /\ moved.selected_sensor < count
                      THEN [moved EXCEPT !.current_view = "ViewTPMSDetail"]
                      ELSE moved,
              ui |-> "idle", done |-> "detail"]
        ELSE IF in.type = "InputTypeLong" /\ in.key = "InputKeyOk"
        THEN [app |-> [moved EXCEPT !.sensor_list =
                                       tpms_sensor_list_clear(@)],
              ui |-> "clear", done |-> "clear"]
        ELSE [app |-> moved, ui |-> "idle", done |-> "list"]

\* The detail view moving to the next sensor without looking at count.
process_input_tpms_detail_unchecked(a, in) ==
    IF in.type = "InputTypeShort" /\ in.key = "InputKeyLeft" /\
       a.selected_sensor > 0
    THEN [a EXCEPT !.selected_sensor = @ - 1]
    ELSE IF in.type = "InputTypeShort" /\ in.key = "InputKeyRight"
    THEN [a EXCEPT !.selected_sensor = @ + 1]
    ELSE a

\* process_input_tpms_detail.
process_input_tpms_detail(a, in) ==
    LET count == Len(a.sensor_list)
    IN  IF in.type = "InputTypeShort" /\ in.key = "InputKeyLeft" /\
           a.selected_sensor > 0
        THEN [a EXCEPT !.selected_sensor = @ - 1]
        ELSE IF in.type = "InputTypeShort" /\ in.key = "InputKeyRight" /\
                a.selected_sensor < count - 1
        THEN [a EXCEPT !.selected_sensor = @ + 1]
        ELSE a

\* protoview_app_entry, lines 256-297: one input taken from the queue, up to
\* the point where its handler returns or has written the first of several
\* shared fields.  No view of this application has subviews.
ProcessInput(a, in) ==
    IF in.type = "InputTypeShort" /\ in.key = "InputKeyBack"
    THEN [app |-> IF a.current_view # "ViewTPMSList"
                  THEN app_switch_view(a, "ViewTPMSList") ELSE a,
          ui |-> "idle", done |-> "back"]
    ELSE IF in.type = "InputTypeShort" /\ in.key = "InputKeyRight" /\
            a.current_view # "ViewTPMSDetail"
    THEN [app |-> app_switch_view(a, "ViewGoNext"), ui |-> "idle",
          done |-> "next"]
    ELSE IF in.type = "InputTypeShort" /\ in.key = "InputKeyLeft" /\
            a.current_view # "ViewTPMSDetail"
    THEN [app |-> app_switch_view(a, "ViewGoPrev"), ui |-> "idle",
          done |-> "prev"]
    ELSE IF a.current_view = "ViewTPMSList"
    THEN process_input_tpms_list(a, in)
    ELSE IF a.current_view = "ViewTPMSDetail"
    THEN [app |-> process_input_tpms_detail(a, in), ui |-> "idle",
          done |-> "detail"]
    ELSE process_input_settings(a, in)

MaxUiReceptions == 2

\* The decoded messages the scans of this scenario latch.
UiMessages ==
    { [init_msg_info EXCEPT !.decoder = "GMTPMSDecoder",
                            !.fieldset = ReadingFields(id, "kpa", TRUE, 1)] :
        id \in { <<1, 2, 3, 4>>, <<1, 2, 3, 5>> } }

InitUi ==
    /\ RawSamples = raw_samples_alloc
    /\ DetectedSamples = raw_samples_alloc
    /\ copy = NULL
    /\ app = protoview_app_alloc(0)
    /\ msgs = <<>>
    /\ file = <<>>
    /\ pc = "idle"
    /\ scan = NoScan
    /\ taken = raw_samples_alloc
    /\ radio = <<>>
    /\ dec = NoUi

\* The main thread takes the input in from the queue.
TakeInput(in) ==
    /\ dec.ui = "idle"
    /\ LET Handled(r) ==
               /\ app' = r.app
               /\ dec' = [ui |-> r.ui, done |-> r.done, seq |-> 1 - dec.seq]
       IN  Handled(ProcessInput(app, in))
    /\ UNCHANGED << RawSamples, DetectedSamples, copy, msgs, file, pc, scan,
                    taken, radio >>

\* Any input of the user.
UiInput == \E in \in Inputs : TakeInput(in)

\* The inputs of a user who stays in the list view and the detail view.
UiInputSensors ==
    \E in \in Inputs :
        /\ ProcessInput(app, in).app.current_view \notin SettingsViews
        /\ TakeInput(in)

\* The main thread goes on in the handler it is in, to its end.
UiResume ==
    /\ dec.ui # "idle"
    /\ app' = IF dec.ui = "select" THEN ManualSelected(app)
              ELSE ListCleared(app)
    /\ dec' = [dec EXCEPT !.ui = "idle"]
    /\ UNCHANGED << RawSamples, DetectedSamples, copy, msgs, file, pc, scan,
                    taken, radio >>

\* timer_callback, lines 193-207, when scan_for_signal latches nothing.
UiTick ==
    /\ pc = "idle"
    /\ pc' = "post"
    /\ UNCHANGED << RawSamples, DetectedSamples, copy, app, msgs, file, scan,
                    taken, radio, dec >>

\* timer_callback, lines 193-207, when scan_for_signal latches a decoded
\* message.
UiReceive ==
    /\ pc = "idle"
    /\ scan.scans < MaxUiReceptions
    /\ \E m \in UiMessages :
         /\ msgs' = Append(msgs, [live |-> TRUE, frees |-> 0, info |-> m])
         /\ app' = [app EXCEPT !.msg_info = << Len(msgs) + 1 >>,
                               !.signal_decoded = TRUE,
                               !.signal_bestlen = minlen + 1]
    /\ scan' = [scan EXCEPT !.scans = @ + 1]
    /\ pc' = "post"
    /\ UNCHANGED << RawSamples, DetectedSamples, copy, file, taken, radio,
                    dec >>

\* The settings scenario: every input, timer ticks that latch nothing.
NextSettings ==
    \/ UiInput
    \/ UiResume
    \/ UiTick
    \/ TimerExit

SpecSettings == InitUi /\ [][NextSettings]_vars

\* The sensor list scenario: the inputs of the two sensor views, timer ticks
\* that latch a decoded message.
NextList ==
    \/ UiInputSensors
    \/ UiResume
    \/ UiReceive
    \/ TimerExit

SpecList == InitUi /\ [][NextList]_vars

(***************************************************************************)
(* Properties of scan_for_signal and timer_callback, under Spec.           *)
(***************************************************************************)

\* C1: in scan_for_signal, for every run longer than 18 pulses, the candidate
\* replaces the latched state (app.msg_info, signal_bestlen, signal_decoded,
\* DetectedSamples) exactly when signal_decoded was false before the run and
\* (the run is longer than signal_bestlen or the run decoded); in every
\* other case the four items are unchanged, so that no run changes them
\* while signal_decoded is true.
C1_LatchRule ==
    [][app'.dbg_coherent_count # app.dbg_coherent_count =>
         LET thislen == app'.dbg_last_signal_len
             decoded == app'.dbg_decode_ok_count # app.dbg_decode_ok_count
             before == Latched(app, DetectedSamples, msgs)
             after == Latched(app', DetectedSamples', msgs')
         IN  /\ thislen > 18
             /\ IF ~app.signal_decoded /\
                   (thislen > app.signal_bestlen \/ decoded)
                THEN /\ after.msg_info = << Len(msgs') >>
                     /\ Len(msgs') = Len(msgs) + 1
                     /\ msgs'[Len(msgs')].live
                     /\ after.signal_bestlen = thislen
                     /\ after.signal_decoded = decoded
                     /\ after.DetectedSamples =
                          raw_samples_center(
                            raw_samples_copy(DetectedSamples, copy'[1]),
                            scan'.i - thislen)
                ELSE after = before
             /\ app.signal_decoded => after = before
    ]_vars

\* A longer run was handled while a decoded signal was latched.
C1_Witness ==
    /\ pc = "scan"
    /\ app.signal_decoded
    /\ U32Of(app.dbg_coherent_count - scan.entry.candidates) >= 2
    /\ app.dbg_last_signal_len > app.signal_bestlen

\* C2: after every timer_callback invocation returns, app.signal_decoded is
\* false: whenever the scan leaves signal_decoded true with a non-null
\* msg_info, the same tick extracts the reading, frees msg_info, sets it to
\* NULL, sets signal_bestlen to 0 and resets DetectedSamples.
C2_DecodedConsumed ==
    /\ [](pc = "idle" => ~app.signal_decoded)
    /\ [][(pc = "post" /\ pc' = "idle" /\ app.signal_decoded /\
           app.msg_info # NULL) =>
            /\ app'.msg_info = NULL
            /\ ~msgs'[app.msg_info[1]].live
            /\ app'.signal_bestlen = 0
            /\ ~app'.signal_decoded
            /\ DetectedSamples' = raw_samples_reset(DetectedSamples)
            /\ Len(file') = Len(file) + 1
            /\ \E k \in 1..Len(app'.sensor_list) :
                 /\ app'.sensor_list[k].protocol =
                      DecoderName(Deref(msgs, app.msg_info).decoder)
                 /\ file'[Len(file')].id = app'.sensor_list[k].id
       ]_vars

\* A timer callback has returned after it consumed a decoded message.
C2_Witness ==
    /\ pc = "idle"
    /\ Len(file) > 0
    /\ app.msg_info = NULL
    /\ ~app.signal_decoded

\* C8: if the snapshot holds no run of at least 19 consecutive pulses that
\* are all within [min_us, 4000] and fit the clustering into at most three
\* classes per level, scan_for_signal allocates no candidate, calls
\* decode_signal zero times and leaves the latched state unchanged.
C8_NoRunNoCandidate ==
    (/\ pc \in {"scan", "post"}
     /\ \/ app.dbg_coherent_count # scan.entry.candidates
        \/ app.dbg_decode_try_count # scan.entry.decode_calls
        \/ Len(msgs) # scan.entry.allocated
        \/ Latched(app, DetectedSamples, msgs) # scan.entry.latched)
    => \E i \in 0..(taken.total - 1) :
          search_coherent_signal(taken, i, scan.min_duration).len >= 19

\* A scan has ended without a candidate on a snapshot whose longest run has
\* 18 pulses.
C8_Witness ==
    /\ pc = "post"
    /\ app.dbg_coherent_count = scan.entry.candidates
    /\ app.dbg_decode_try_count = scan.entry.decode_calls
    /\ \E i \in 0..(taken.total - 1) :
         search_coherent_signal(taken, i, scan.min_duration).len = 18

\* C9: whenever scan_for_signal emits a candidate (a run longer than 18
\* pulses), the short_pulse_dur computed for that run satisfies
\* min_us < short_pulse_dur < 4000, runs whose pulses all last exactly
\* min_us or exactly 4000 included.
C9_StrictlyBetween ==
    (pc = "scan" /\ app.dbg_coherent_count # scan.entry.candidates) =>
        /\ scan.min_duration < app.dbg_last_signal_dur
        /\ app.dbg_last_signal_dur < 4000

\* C9, amended: whenever scan_for_signal emits a candidate, the
\* short_pulse_dur computed for that run satisfies
\* min_us <= short_pulse_dur <= 4000.
C9_WithinLimits ==
    (pc = "scan" /\ app.dbg_coherent_count # scan.entry.candidates) =>
        /\ scan.min_duration <= app.dbg_last_signal_dur
        /\ app.dbg_last_signal_dur <= 4000

\* A candidate was emitted for a run whose pulses all last exactly min_us.
C9_Witness ==
    /\ pc = "scan"
    /\ app.dbg_coherent_count # scan.entry.candidates
    /\ app.dbg_last_signal_dur = scan.min_duration

\* C10: scan_for_signal reads the source only through the initial
\* raw_samples_copy: the run searches, the decodes and the latch use the
\* snapshot, so appends to the source after the copy change neither the
\* candidates found nor what is latched, and scan_for_signal never modifies
\* the source buffer.
C10_ScanUsesSnapshot ==
    /\ [](pc = "scan" =>
            /\ copy # NULL
            /\ copy[1].samples = taken.samples
            /\ copy[1].idx = taken.idx
            /\ copy[1].total = taken.total)
    /\ [][(/\ pc \in {"idle", "scan"}
           /\ \/ pc' # pc
              \/ [scan' EXCEPT !.arrived = 0] # [scan EXCEPT !.arrived = 0]) =>
            RawSamples' = RawSamples]_vars
    /\ [][(/\ pc = "scan"
           /\ \/ pc' # pc
              \/ [scan' EXCEPT !.arrived = 0] # [scan EXCEPT !.arrived = 0]) =>
            LET Expected(adv) ==
                    IF adv.found
                    THEN /\ pc' = "scan"
                         /\ app'.dbg_coherent_count # app.dbg_coherent_count
                         /\ app'.dbg_last_signal_len = adv.len
                         /\ app'.dbg_last_signal_dur = adv.spd
                         /\ scan'.i = adv.i + adv.len
                         /\ DetectedSamples' # DetectedSamples =>
                              /\ DetectedSamples'.samples = taken.samples
                              /\ DetectedSamples'.idx =
                                   raw_samples_center(taken, adv.i).idx
                    ELSE /\ pc' = "post"
                         /\ app' = app
                         /\ DetectedSamples' = DetectedSamples
            IN  Expected(ScanAdvance(
                           [taken EXCEPT
                              !.short_pulse_dur = copy[1].short_pulse_dur],
                           scan.i, scan.min_duration))
       ]_vars

\* A candidate is latched in the middle of a scan during which the radio
\* appended to the source.
C10_Witness ==
    /\ pc = "scan"
    /\ scan.i > 0
    /\ RawSamples # taken
    /\ app.msg_info # NULL
    /\ DetectedSamples.samples = taken.samples

\* C11: every message info allocated by scan_for_signal is, once
\* scan_for_signal has returned, either the one app.msg_info refers to or
\* freed; a latched info that is replaced is freed exactly once; no info is
\* freed twice and app.msg_info never refers to a freed info, across scans,
\* timer-tick resets and reset_current_signal calls.
C11_MsgInfoOwnership ==
    /\ [](/\ \A k \in 1..Len(msgs) :
              /\ msgs[k].frees <= 1
              /\ msgs[k].live <=> msgs[k].frees = 0
          /\ app.msg_info # NULL => msgs[app.msg_info[1]].live
          /\ pc \in {"post", "idle"} =>
                \A k \in 1..Len(msgs) :
                   msgs[k].live => app.msg_info = << k >>)
    /\ [][(app.msg_info # NULL /\ app'.msg_info # app.msg_info) =>
            msgs'[app.msg_info[1]].frees = 1]_vars

\* A scan has latched a third candidate after it had freed the latched
\* first one and the second one, which lost against it.
C11_Witness ==
    /\ pc = "post"
    /\ Len(msgs) = 3
    /\ app.msg_info = << 3 >>
    /\ msgs[1].frees = 1
    /\ msgs[2].frees = 1

\* C12: when the allocation of the candidate message info or of the working
\* bitmap fails during scan_for_signal, the program goes on and the latched
\* state (msg_info, signal_bestlen, signal_decoded, DetectedSamples) is as
\* it was before the candidate.
C12_AllocFailureLeavesLatched ==
    [][(scan'.failed # "" /\
        app'.dbg_coherent_count # app.dbg_coherent_count) =>
          /\ pc' # "crashed"
          /\ Latched(app', DetectedSamples', msgs') =
             Latched(app, DetectedSamples, msgs)]_vars

\* C13: scan_for_signal, tpms_extract_and_store and the reconfiguration of
\* the radio are executed only in the main event loop, never in the context
\* of the timer callback, which only sets flags.
C13_TimerOnlySetsFlags ==
    /\ [](pc = "scan" => scan.context = "main")
    /\ [][(\/ app'.sensor_list # app.sensor_list
           \/ file' # file
           \/ app'.radio_modulation # app.radio_modulation)
          => scan.context = "main"]_vars

\* C16: while mod_auto_cycle is on, every timer tick increments
\* mod_cycle_counter, however many samples arrived in the raw buffer, and
\* the 24th tick resets it and makes the next preset whose name contains
\* "TPMS" the active modulation, so that every TPMS preset becomes the
\* active one in turn.
C16_CycleEveryTick ==
    [][(/\ pc' = "idle"
        /\ scan'.ticks # scan.ticks \/ pc = "post"
        /\ app.mod_auto_cycle) =>
          /\ app'.mod_cycle_counter = (app.mod_cycle_counter + 1) % 24
          /\ app.mod_cycle_counter + 1 = 24 =>
                /\ app'.modulation \in TpmsModulations
                /\ app'.modulation = next_tpms_modulation(app.modulation)
      ]_vars

(***************************************************************************)
(* Properties of the sensor list, under SpecSensors.                       *)
(***************************************************************************)
\* The message holds a tire ID as a byte field: tpms_extract_and_store
\* returns true for it.
ValidReading(msg) ==
    \E k \in 1..Len(msg.fieldset) :
        /\ msg.fieldset[k].name = "Tire ID"
        /\ msg.fieldset[k].type = "FieldTypeBytes"
        /\ \A m \in 1..(k - 1) : msg.fieldset[m].name # "Tire ID"

\* The tire ID of a valid reading.
ReadingId(msg) ==
    LET k == CHOOSE k \in 1..Len(msg.fieldset) :
                 msg.fieldset[k].name = "Tire ID"
    IN  msg.fieldset[k].value

\* The step is a call of tpms_extract_and_store on a valid reading.
StoresReading ==
    /\ pc = "post"
    /\ pc' = "idle"
    /\ app.signal_decoded
    /\ app.msg_info # NULL
    /\ ValidReading(Deref(msgs, app.msg_info))

\* C14: every call of tpms_extract_and_store that extracts a valid sensor
\* calls tpms_save_to_file exactly once for that reading, whatever the
\* sensor list holds: the log gets one more line, which carries the ID of
\* the reading.
C14_EveryDetectionLogged ==
    [][StoresReading =>
          /\ Len(file') = Len(file) + 1
          /\ file'[Len(file')].id = ReadingId(Deref(msgs, app.msg_info))
      ]_vars

\* The reading carries a pressure, a temperature.
CarriesPressure(msg) ==
    \E k \in 1..Len(msg.fieldset) :
        /\ msg.fieldset[k].name \in {"Pressure kpa", "Pressure psi"}
        /\ msg.fieldset[k].type = "FieldTypeFloat"

CarriesTemperature(msg) ==
    \E k \in 1..Len(msg.fieldset) :
        /\ msg.fieldset[k].name = "Temperature C"
        /\ msg.fieldset[k].type = "FieldTypeSignedInt"

\* C15: no two entries of the sensor list have the same (id_len, id); a
\* reception whose ID is listed leaves the count unchanged, increments the
\* rx_count of that entry by one and overwrites its pressure and its
\* temperature only when the reading carries them; a reception with a new
\* ID stores it with rx_count 1.
C15_DedupUpdateInPlace ==
    /\ [](\A k, m \in 1..Len(app.sensor_list) :
            (/\ app.sensor_list[k].id_len = app.sensor_list[m].id_len
             /\ app.sensor_list[k].id = app.sensor_list[m].id) => k = m)
    /\ [][StoresReading =>
          LET Updated(old, new, msg) ==
                  /\ new.rx_count = U32Of(old.rx_count + 1)
                  /\ new.id = old.id
                  /\ new.id_len = old.id_len
                  /\ CarriesPressure(msg) => new.has_pressure
                  /\ ~CarriesPressure(msg) =>
                        /\ new.pressure_psi = old.pressure_psi
                        /\ new.has_pressure = old.has_pressure
                  /\ CarriesTemperature(msg) => new.has_temperature
                  /\ ~CarriesTemperature(msg) =>
                        /\ new.temperature_f = old.temperature_f
                        /\ new.has_temperature = old.has_temperature
              Stored(before, after, msg, id) ==
                  IF \E k \in 1..Len(before) :
                        before[k].id_len = Len(id) /\ before[k].id = id
                  THEN /\ Len(after) = Len(before)
                       /\ \A k \in 1..Len(before) :
                            IF before[k].id_len = Len(id) /\ before[k].id = id
                            THEN Updated(before[k], after[k], msg)
                            ELSE after[k] = before[k]
                  ELSE /\ Len(after) = Len(before) + 1
                       /\ SubSeq(after, 1, Len(before)) = before
                       /\ after[Len(after)].id = id
                       /\ after[Len(after)].id_len = Len(id)
                       /\ after[Len(after)].rx_count = 1
          IN  Stored(app.sensor_list, app'.sensor_list,
                     Deref(msgs, app.msg_info),
                     ReadingId(Deref(msgs, app.msg_info)))
      ]_vars

(***************************************************************************)
(* Properties of decode_signal and the decoders, under SpecDecode.         *)
(***************************************************************************)
\* The decoders of the registry in the order of the contract.
RegistryOrder ==
    << "PMV107JTPMSDecoder", "Elantra2012TPMSDecoder", "BMWTPMSDecoder",
       "BMWGen3TPMSDecoder", "PorscheTPMSDecoder",
       "SchraderSMD3MA4TPMSDecoder", "RenaultTPMSDecoder",
       "ToyotaTPMSDecoder", "SchraderTPMSDecoder",
       "SchraderEG53MA4TPMSDecoder", "CitroenTPMSDecoder", "FordTPMSDecoder",
       "HyundaiKiaTPMSDecoder", "GMTPMSDecoder" >>

\* The decoder called last has returned false.
LastRejected ==
    /\ pc \in {"dec_loop", "dec_finish"}
    /\ dec.tried # <<>>
    /\ ~dec.tried[Len(dec.tried)].ok

\* C3: decode_signal calls the decoders in registry order, stops at the
\* first decoder whose decode returns true, sets info.decoder to that
\* decoder and calls no later one; it returns false exactly when every
\* decoder returned false.  PMV-107J is tried before the generic Toyota
\* decoder.
C3_RegistryOrder ==
    LET n == Len(dec.tried)
    IN  /\ n <= Len(RegistryOrder)
        /\ \A k \in 1..n : dec.tried[k].name = RegistryOrder[k]
        /\ \A k \in 1..(n - 1) : ~dec.tried[k].ok
        /\ \A k \in 1..n :
             dec.tried[k].name = "ToyotaTPMSDecoder" =>
                \E m \in 1..(k - 1) : dec.tried[m].name = "PMV107JTPMSDecoder"
        /\ pc = "dec_loop" => (n = 0 \/ ~dec.tried[n].ok)
        /\ pc \in {"dec_finish", "dec_done"} =>
             /\ n >= 1
             /\ dec.decoded = dec.tried[n].ok
             /\ dec.decoded => dec.info.decoder = RegistryOrder[n]
             /\ ~dec.decoded => n = Len(RegistryOrder)

\* The generic Toyota decoder accepted after the seven decoders before it
\* had rejected.
C3_Witness ==
    /\ pc = "dec_done"
    /\ dec.decoded
    /\ dec.info.decoder = "ToyotaTPMSDecoder"
    /\ Len(dec.tried) = 8

\* C4: for every candidate for which decode_signal returns true, info.bits
\* is non-null exactly when pulses_count > 0, its length bits_bytes equals
\* ceil(pulses_count / 8), and for every k in 0..pulses_count-1 bit k of
\* info.bits equals bit start_off + k of the working bitmap.
C4_PayloadCopy ==
    (pc = "dec_done" /\ dec.decoded) =>
        /\ (dec.info.bits # NULL) <=> (dec.info.pulses_count > 0)
        /\ dec.info.bits # NULL =>
             /\ dec.info.bits_bytes = (dec.info.pulses_count + 7) \div 8
             /\ dec.info.bits[1].size = dec.info.bits_bytes
             /\ \A k \in 0..(dec.info.pulses_count - 1) :
                  bitmap_get(dec.info.bits[1], dec.info.bits_bytes, k) =
                  bitmap_get(dec.bitmap, bitmap_size, dec.info.start_off + k)

\* A payload was copied from an offset that is no multiple of 8.
C4_Witness ==
    /\ pc = "dec_done"
    /\ dec.decoded
    /\ dec.info.pulses_count > 0
    /\ dec.info.start_off % 8 # 0
    /\ dec.info.pulses_count % 8 # 0

\* C5: whenever a protocol decoder's decode returns false, the out_msg_info
\* it was given is exactly as it was on entry: start_off, pulses_count, bits
\* and the field set are all unchanged, at every failure point.
C5_FailureLeavesInfo ==
    LastRejected => dec.info = dec.entry

\* C6: a decoder that returns false adds no field to the field set: after
\* decode_signal returns false the field set holds zero fields and info.bits
\* is null, and after decode_signal returns true the field set holds only
\* the fields added by the accepting decoder.
C6_RejectAddsNoField ==
    /\ LastRejected => dec.ret.fieldset = dec.entry.fieldset
    /\ (pc = "dec_done" /\ ~dec.decoded) =>
          /\ dec.info.fieldset = <<>>
          /\ dec.info.bits = NULL
    /\ (pc \in {"dec_finish", "dec_done"} /\ dec.decoded) =>
          /\ dec.entry.fieldset = <<>>
          /\ dec.info.fieldset = dec.ret.fieldset

\* decode_signal has returned false after a decoder had found its preamble
\* and rejected the frame later.
C6_Witness ==
    /\ pc = "dec_done"
    /\ ~dec.decoded
    /\ dec.info.start_off # 0
    /\ dec.info.fieldset = <<>>

\* C7: every decoder invocation that returns true has added a field named
\* "Tire ID" of type bytes and at least one float field named "Pressure kpa"
\* or "Pressure psi"; any "Temperature C" field it adds is a signed int.
\* This holds for PMV-107J, Elantra2012, BMW Gen4/5, BMW Gen2/3, Porsche,
\* Schrader SMD3MA4, GM and Hyundai/Kia.
C7_ContractFields ==
    (/\ pc \in {"dec_finish", "dec_done"}
     /\ dec.decoded
     /\ dec.tried[Len(dec.tried)].name \in
          {"PMV107JTPMSDecoder", "Elantra2012TPMSDecoder", "BMWTPMSDecoder",
           "BMWGen3TPMSDecoder", "PorscheTPMSDecoder",
           "SchraderSMD3MA4TPMSDecoder", "GMTPMSDecoder",
           "HyundaiKiaTPMSDecoder"})
    => LET fs == dec.ret.fieldset
           added == (Len(dec.entry.fieldset) + 1)..Len(fs)
       IN  /\ \E k \in added :
                fs[k].name = "Tire ID" /\ fs[k].type = "FieldTypeBytes"
           /\ \E k \in added :
                /\ fs[k].name \in {"Pressure kpa", "Pressure psi"}
                /\ fs[k].type = "FieldTypeFloat"
           /\ \A k \in added :
                fs[k].name = "Temperature C" =>
                   fs[k].type = "FieldTypeSignedInt"

\* Schrader SMD3MA4, which reports a pressure in PSI and no temperature,
\* has accepted a frame.
C7_Witness ==
    /\ pc = "dec_done"
    /\ dec.decoded
    /\ dec.info.decoder = "SchraderSMD3MA4TPMSDecoder"
    /\ \E k \in 1..Len(dec.info.fieldset) :
         dec.info.fieldset[k].name = "Pressure psi"

(***************************************************************************)
(* Properties of the bitmap primitives, under SpecBitmap.                  *)
(***************************************************************************)
\* The call of op has returned.
Returned(op) == pc = "return" /\ dec.op = op

\* C17: when the count bits at soff lie inside the source and the count bits
\* at doff inside the destination, bitmap_copy makes destination bit doff+k
\* equal to source bit soff+k for every k < count, whatever the alignments,
\* and leaves every other bit of the destination as it was.
C17_CopyBitExact ==
    LET Inside(c) ==
            /\ c.doff + c.count <= 8 * c.dlen
            /\ c.soff + c.count <= 8 * c.slen
        Exact(c, d) ==
            /\ \A k \in 0..(c.count - 1) :
                 MemBit(d, c.doff + k) = MemBit(c.s, c.soff + k)
            /\ \A k \in 0..(8 * c.dlen - 1) :
                 (k < c.doff \/ k >= c.doff + c.count) =>
                     MemBit(d, k) = MemBit(c.d, k)
            /\ Len(d.mem) = Len(c.d.mem)
    IN  (Returned("bitmap_copy") /\ Inside(dec.args)) =>
            Exact(dec.args, dec.out[1].d)

\* 17 bits copied from an unaligned source to an unaligned destination: the
\* bitwise, the skewed bytewise and the final bitwise loop all ran.
C17_Witness ==
    /\ Returned("bitmap_copy")
    /\ dec.args.doff = 3 /\ dec.args.soff = 6 /\ dec.args.count = 17
    /\ dec.args.d = ZeroBuf(BitmapBytes)
    /\ \E k \in 0..16 : MemBit(dec.out[1].d, 3 + k) = 1

\* C18: bitmap_seek_bits returns the smallest j at which bitmap_match_bits
\* holds with startpos <= j < min(startpos + blen*8, startpos + maxbits), and
\* BITMAP_SEEK_NOT_FOUND exactly when there is no such j.
C18_SeekSmallest ==
    LET Hits(c) ==
            {j \in c.startpos..(Min2(c.startpos + c.blen * 8,
                                     c.startpos + c.maxbits) - 1) :
                bitmap_match_bits(c.b, c.blen, j, c.bits)}
        Smallest(r, hits) ==
            /\ r = BITMAP_SEEK_NOT_FOUND <=> hits = {}
            /\ hits # {} => r \in hits /\ \A j \in hits : r <= j
    IN  Returned("bitmap_seek_bits") =>
            Smallest(dec.out[1], Hits(dec.args))

\* The pattern is found at the last position that maxbits allows, after
\* positions at which it does not match.
C18_Witness ==
    /\ Returned("bitmap_seek_bits")
    /\ dec.out[1] # BITMAP_SEEK_NOT_FOUND
    /\ dec.out[1] = dec.args.startpos + dec.args.maxbits - 1
    /\ dec.out[1] > dec.args.startpos + 1

\* C19: bitmap_match_bits returns false whenever the pattern placed at
\* bitpos extends past the end of the bitmap (bitpos + the length of the
\* pattern > blen*8), whatever the pattern, those whose characters past the
\* end are all '0' included.
C19_MatchFalseOnOverflow ==
    (/\ Returned("bitmap_match_bits")
     /\ dec.args.bitpos + Len(dec.args.bits) > dec.args.blen * 8) =>
        dec.out[1] = FALSE

\* C20: bitmap_copy, convert_from_line_code, convert_from_diff_manchester and
\* diff_manchester_decode read no source byte at an index >= the source
\* length in bytes they were given and write no destination byte at an index
\* >= the destination length in bytes, for every offset and count.
C20_ByteCountsBoundAccesses ==
    LET SourceLen(c) ==
            IF c.op = "bitmap_copy" THEN c.slen
            ELSE IF c.op = "diff_manchester_decode" THEN c.numbytes
            ELSE c.len
        DestLen(c) == IF c.op = "bitmap_copy" THEN c.dlen ELSE c.buflen
        Bounded(c, r) == r.rmax < SourceLen(c) /\ r.wmax < DestLen(c)
    IN  (/\ pc = "return"
         /\ dec.op \in {"bitmap_copy", "convert_from_line_code",
                        "convert_from_diff_manchester",
                        "diff_manchester_decode"}) =>
            Bounded(dec.args, dec.out[1])

(***************************************************************************)
(* Properties of the line-code converters, under SpecBitmap.               *)
(***************************************************************************)
\* The call of convert_signal_to_bits made for test has returned.
ReturnedTest(test) ==
    Returned("convert_signal_to_bits") /\ dec.args.test = test

\* C21: for a bit sequence that fits the destination, sent as one pulse of
\* k * unit microseconds for each maximal run of k equal bits,
\* convert_signal_to_bits at the rate unit returns the length of the
\* sequence and the bitmap holds the sequence bit for bit.
C21_NrzRoundTrip ==
    LET Same(seq, r) ==
            /\ r.bits = Len(seq)
            /\ \A k \in 1..Len(seq) : MemBit(r.b, k - 1) = seq[k]
    IN  ReturnedTest("round trip") => Same(dec.args.seq, dec.out[1])

\* A sequence with runs of one, two and three bits came back.
C21_Witness ==
    /\ ReturnedTest("round trip")
    /\ dec.args.seq = << 1, 0, 0, 1, 1, 1 >>
    /\ dec.args.rate = 333
    /\ dec.out[1].bits = 6
    /\ dec.args.s.idx = RAW_SAMPLES_NUM - 2

\* The call of convert_from_line_code on a byte stream has returned.
ReturnedStream ==
    Returned("convert_from_line_code") /\ "stream" \in DOMAIN dec.args

\* C22: convert_from_line_code with the patterns "01" and "10", on the ideal
\* Manchester code of a byte stream that fits the destination, returns 8
\* times the number of bytes and the destination holds the stream; it stops
\* at the first window of 2 bits that is neither pattern; it never reports
\* more than 8 * buflen bits.
C22_ManchesterRoundTrip ==
    LET Reproduced(c, r, n) ==
            /\ r.decoded = n
            /\ \A k \in 1..n : MemBit(r.buf, k - 1) = BitsOfBytes(c.stream)[k]
        Claimed(c, r) ==
            /\ (c.bad = 0 /\ Len(c.stream) <= c.buflen) =>
                   Reproduced(c, r, 8 * Len(c.stream))
            /\ c.bad > 0 => r.decoded <= c.bad - 1
            /\ (c.bad > 0 /\ c.bad - 1 <= 8 * c.buflen) =>
                   Reproduced(c, r, c.bad - 1)
            /\ r.decoded <= 8 * c.buflen
    IN  ReturnedStream => Claimed(dec.args, dec.out[1])

\* Two bytes came back from their Manchester code into a destination of
\* exactly two bytes.
C22_Witness ==
    /\ ReturnedStream
    /\ dec.args.stream = << 165, 60 >>
    /\ dec.args.bad = 0
    /\ dec.args.buflen = 2
    /\ dec.out[1].decoded = 16
    /\ Bytes(dec.out[1].buf, 0, 2) = << 165, 60 >>

\* The call of diff_manchester_decode on an encoded sequence has returned.
ReturnedSequence ==
    Returned("diff_manchester_decode") /\ "seq" \in DOMAIN dec.args

\* C23: diff_manchester_decode, on the differential Manchester code of a
\* sequence of n <= max_bits bits (a mid-bit transition in every cell, no
\* transition at the start of a cell for 1 and a transition for 0, the line
\* idle afterwards), returns n and the destination holds the sequence; it
\* stops at the first cell without mid-bit transition; it never returns more
\* than max_bits.
C23_DiffManchesterRoundTrip ==
    LET Reproduced(c, r, n) ==
            /\ r.decoded = n
            /\ \A k \in 1..n : MemBit(r.buf, k - 1) = c.seq[k]
        Claimed(c, r) ==
            /\ (c.bad = 0 /\ Len(c.seq) <= c.max_bits) =>
                   Reproduced(c, r, Len(c.seq))
            /\ c.bad > 0 => r.decoded <= c.bad - 1
            /\ (c.bad > 0 /\ c.bad - 1 <= c.max_bits) =>
                   Reproduced(c, r, c.bad - 1)
            /\ r.decoded <= c.max_bits
    IN  ReturnedSequence => Claimed(dec.args, dec.out[1])

\* Six bits came back although two more were allowed.
C23_Witness ==
    /\ ReturnedSequence
    /\ dec.args.seq = << 1, 0, 0, 1, 1, 0 >>
    /\ dec.args.bad = 0
    /\ dec.args.max_bits = 8
    /\ dec.out[1].decoded = 6
    /\ ByteAt(dec.out[1].buf, 0) \div 4 = 38

(***************************************************************************)
(* Properties of the decoders called on one bitmap, under SpecBitmap.      *)
(***************************************************************************)
\* The decode callback of decoder has returned.
DecoderReturned(decoder) == Returned("decode") /\ dec.args.decoder = decoder

\* The value of the field name of a field set (<<>> when it has none).
FieldValue(fs, name) ==
    IF \E k \in 1..Len(fs) : fs[k].name = name
    THEN << fs[CHOOSE k \in 1..Len(fs) : fs[k].name = name].value >>
    ELSE <<>>

\* C24: on the preamble 111110 followed by 66 differential Manchester bits
\* that realign to b[0..8] with crc8(b[0..7], 0x00, 0x13) = b[8] and
\* b[5] XOR b[6] = 0xFF, the PMV-107J decoder returns true with Tire ID byte
\* k = ((b[k] << 6) | (b[k+1] >> 2)) mod 256 for k = 0..3 and Temperature C =
\* b[7] - 40 (Tire ID 04 8D 15 9E and 50 C for 00 12 34 56 78 C8 37 5A crc);
\* when the CRC or the XOR check fails it returns false.
C24_PmvExtraction ==
    LET Valid(b) ==
            /\ crc8(SubSeq(b, 1, 8), 0, 19) = b[9]
            /\ b[6] + b[7] = 255
        Extracted(b, fs) ==
            /\ FieldValue(fs, "Tire ID") =
                   << [k \in 1..4 |-> ((b[k] * 64) % 256) + (b[k + 1] \div 4)] >>
            /\ FieldValue(fs, "Temperature C") = << b[8] - 40 >>
            /\ b = PayloadPMV =>
                   /\ FieldValue(fs, "Tire ID") = << << 4, 141, 21, 158 >> >>
                   /\ FieldValue(fs, "Temperature C") = << 50 >>
        Claimed(b, r) ==
            /\ Valid(b) => r.ok /\ Extracted(b, r.info.fieldset)
            /\ ~Valid(b) => ~r.ok
    IN  DecoderReturned("PMV107JTPMSDecoder") => Claimed(dec.args.b, dec.out[1])

\* The message of the example was decoded.
C24_Witness ==
    /\ DecoderReturned("PMV107JTPMSDecoder")
    /\ dec.args.b = PayloadPMV
    /\ dec.out[1].ok
    /\ FieldValue(dec.out[1].info.fieldset, "Tire ID") =
           << << 4, 141, 21, 158 >> >>

\* C25: the BMW Gen4/5 & Audi decoder accepts as an Audi message every
\* bitmap that carries the preamble 0xAA59 followed by Manchester code (10
\* for 0, 01 for 1) whose first 8 decoded bytes satisfy
\* crc8(b[0..6], 0xAA, 0x2F) = b[7], whether or not more valid Manchester
\* code follows the 64th decoded bit.
C25_AudiAfterBmw ==
    LET Valid(b) == crc8(SubSeq(b, 1, 7), 170, 47) = b[8]
        Accepted8(b, r) ==
            /\ r.ok
            /\ FieldValue(r.info.fieldset, "Tire ID") = << SubSeq(b, 2, 5) >>
    IN  (DecoderReturned("BMWTPMSDecoder") /\ Valid(dec.args.b)) =>
            Accepted8(dec.args.b, dec.out[1])

\* C26: on the preamble tail 010101011110 followed by 39 Manchester bits (01
\* for 0, 10 for 1), every successful Schrader SMD3MA4 decode emits a
\* "Pressure psi" inside [0, 100] and no "Temperature C"; the payload of 39
\* zero bits is rejected; and a payload with pressure_raw <= 500 that has a
\* bit set among its 39 is not rejected.  Pressures are in hundredths.
C26_SchraderClamp ==
    LET Zero39(b) == \A k \in 1..39 : BitsOfBytes(b)[k] = 0
        pressure_raw(b) == (b[4] % 32) * 32 + (b[5] \div 8)
        InRange(v) == v # <<>> /\ v[1] >= 0 /\ v[1] <= 10000
        Claimed(b, r) ==
            /\ r.ok => /\ InRange(FieldValue(r.info.fieldset, "Pressure psi"))
                       /\ FieldValue(r.info.fieldset, "Temperature C") = <<>>
            /\ Zero39(b) => ~r.ok
            /\ (~Zero39(b) /\ pressure_raw(b) <= 500) => r.ok
    IN  DecoderReturned("SchraderSMD3MA4TPMSDecoder") =>
            Claimed(dec.args.b, dec.out[1])

(***************************************************************************)
(* Termination of scan_for_signal, under Spec.                             *)
(***************************************************************************)
\* C27: on every snapshot scan_for_signal terminates: within capacity + 1
\* evaluations its loop condition becomes false, after at most capacity - 1
\* runs of the body; every run length is at most capacity, every
\* search_coherent_signal call examines at most capacity pulses, the start
\* index of each iteration is that of the previous one plus
\* max(run length, 1), and the index of the scan in progress is one of them.
C27_ScanTerminates ==
    LET Stepped(tr, k) ==
            /\ tr[k].len <= copy[1].total
            /\ tr[k].examined <= copy[1].total
            /\ k > 1 => /\ tr[k].i = tr[k - 1].i + Max2(tr[k - 1].len, 1)
                        /\ tr[k].i > tr[k - 1].i
        Terminated(r) ==
            /\ r.brk
            /\ Len(r.trace) <= copy[1].total - 1
            /\ \A k \in 1..Len(r.trace) : Stepped(r.trace, k)
            /\ scan.i \in {r.trace[k].i : k \in 1..Len(r.trace)} \cup {r.i}
    IN  pc = "scan" =>
            Terminated(ScanIterations(copy[1], scan.min_duration,
                                      copy[1].total + 1))

\* A scan whose loop body runs capacity - 1 times: no pulse of the snapshot
\* starts a run.
C27_Witness ==
    LET Longest(r) ==
            /\ r.brk
            /\ Len(r.trace) = copy[1].total - 1
            /\ \A k \in 1..Len(r.trace) : r.trace[k].len = 0
    IN  /\ pc = "scan"
        /\ Longest(ScanIterations(copy[1], scan.min_duration,
                                  copy[1].total + 1))

(***************************************************************************)
(* Properties of convert_signal_to_bits on single pulses, under            *)
(* SpecBitmap.                                                             *)
(***************************************************************************)
\* What the conversion of a pulse of dur microseconds at a rate that gives n
\* bits for it leaves, when a pulse of one unit and of the other level
\* follows: n + 1 bits returned, the first n (as far as the destination
\* holds them) at the level of the pulse, the next at the other level, the
\* rest of the destination as it was.  At the rate 0 the call returns 0 and
\* the destination is as it was.
Emitted(c, r, n) ==
    LET lv == IF c.level THEN 1 ELSE 0
    IN  IF c.rate = 0 THEN r.bits = 0 /\ r.b = c.b
        ELSE /\ r.bits = n + 1
             /\ \A k \in 0..(8 * c.blen - 1) :
                    MemBit(r.b, k) = IF k < n THEN lv
                                     ELSE IF k = n THEN 1 - lv
                                     ELSE MemBit(c.b, k)

\* C28 as stated, reading round as the usual rounding to the nearest integer
\* with k + 1/2 rounded to k + 1: each pulse gives
\* min(1024, round(dur/rate)) copies of its level, a pulse with n = 0 gives
\* none, and at the rate 0 the call returns 0 and writes nothing.
C28_RoundToNearest ==
    LET Round(dur, rate) == (2 * dur + rate) \div (2 * rate)
        Claimed(c, r) ==
            Emitted(c, r, IF c.rate = 0 THEN 0
                          ELSE Min2(1024, Round(c.dur, c.rate)))
    IN  ReturnedTest("rounding") => Claimed(dec.args, dec.out[1])

\* C28, amended: each pulse gives min(1024, n) copies of its level where n
\* is the integer nearest to dur/rate and k when dur/rate is exactly
\* k + 1/2; a pulse with n = 0 gives none, and at the rate 0 the call
\* returns 0 and writes nothing.
C28_RoundHalfDown ==
    LET Round(dur, rate) == (2 * dur + rate - 1) \div (2 * rate)
        Claimed(c, r) ==
            Emitted(c, r, IF c.rate = 0 THEN 0
                          ELSE Min2(1024, Round(c.dur, c.rate)))
    IN  ReturnedTest("rounding") => Claimed(dec.args, dec.out[1])

\* A pulse of one unit and a half gave one bit.
C28_Witness ==
    /\ ReturnedTest("rounding")
    /\ dec.args.dur = 75
    /\ dec.args.rate = 50
    /\ dec.args.level
    /\ dec.out[1].bits = 2
    /\ MemBit(dec.out[1].b, 0) = 1
    /\ MemBit(dec.out[1].b, 1) = 0

C30_ScanNeedsNewSamples ==
    [][(pc = "idle" /\ pc' = "scan") =>
          /\ scan.arrived >= RawSamples.total \div 2
          /\ ~(RawSamples.idx = app.signal_last_scan_idx /\ scan.arrived = 0)]_vars


(***************************************************************************)
(* Properties of the input handlers, under SpecSettings and SpecList.      *)
(***************************************************************************)

\* C31: once the Up/Down handler of the modulation settings view has run to
\* its end, mod_auto_cycle is false; while it is false no timer tick changes
\* app.modulation or turns it on; it turns on only by a long OK press in a
\* settings view, which also sets mod_cycle_counter to 0.
C31_ManualStopsCycling ==
    /\ [][(dec.ui = "select" /\ dec'.ui = "idle") =>
              ~app'.mod_auto_cycle]_vars
    /\ [][(~app.mod_auto_cycle /\ pc = "post" /\ pc' = "idle") =>
              (app'.modulation = app.modulation /\ ~app'.mod_auto_cycle)]_vars
    /\ [][(~app.mod_auto_cycle /\ app'.mod_auto_cycle) =>
              /\ dec'.seq # dec.seq
              /\ dec'.done = "toggle"
              /\ app.current_view \in SettingsViews
              /\ app'.mod_cycle_counter = 0]_vars

\* A tick arrives after a manual selection, with the counter one short of
\* the period.
C31_Witness ==
    /\ pc = "post"
    /\ dec.ui = "idle"
    /\ dec.done = "select"
    /\ ~app.mod_auto_cycle
    /\ app.mod_cycle_counter = 23
    /\ app.modulation # find_tpms_modulation

(***************************************************************************)
(* Properties of decode_signal on whole receptions, under SpecBitmap.      *)
(***************************************************************************)
\* What a caller of decode_signal sees of its result.
DecodeOutcome(r) ==
    IF r.decoded
    THEN [decoded |-> TRUE, decoder |-> r.info.decoder,
          start_off |-> r.info.start_off,
          pulses_count |-> r.info.pulses_count,
          fieldset |-> r.info.fieldset]
    ELSE [decoded |-> FALSE, decoder |-> "", start_off |-> 0,
          pulses_count |-> 0, fieldset |-> <<>>]

\* C32: the result of decode_signal on a candidate (accept or reject, the
\* accepting decoder, start_off, pulses_count and the fields) is the same
\* whatever the fresh working bitmap holds beyond the bits that
\* convert_signal_to_bits wrote.
C32_DecodeDeterministic ==
    Returned("scan_decode") =>
        \A f \in HeapFill :
            DecodeOutcome(decode_signal(dec.args.s, dec.args.len,
                                        dec.args.info, f, NoExt)) =
            DecodeOutcome(dec.out[1])

C34_SpanInsideBitmap ==
    (Returned("decode_edge") /\ dec.out[1].ok) =>
        dec.out[1].info.start_off + dec.out[1].info.pulses_count <=
            dec.args.numbytes * 8

(***************************************************************************)
(* Properties of the candidate runs of scan_for_signal, under Spec.        *)
(***************************************************************************)
\* C35: every candidate run that scan_for_signal hands to decode_signal, of
\* start index i and length L, has i + L <= capacity: it does not go on
\* from the newest sample of the snapshot to the oldest one.
C35_RunsContiguous ==
    LET Contiguous(tr) ==
            \A k \in 1..Len(tr) :
                tr[k].len > minlen => tr[k].i + tr[k].len <= copy[1].total
    IN  pc = "scan" =>
            Contiguous(ScanIterations(copy[1], scan.min_duration,
                                      copy[1].total + 1).trace)

(***************************************************************************)
(* Properties of the decoders, under SpecBitmap.                           *)
(***************************************************************************)
\* C36: the PMV-107J decoder returns true on a bitmap that holds, within its
\* first numbits bits, a complete valid frame, also when the pattern 111110
\* occurs before that frame.
C36_PmvComplete == Returned("decode_later") => dec.out[1].ok

\* C37: the Hyundai/Kia decoder returns false for every numbits below
\* 16 + 160, the 16 sync bits and the Manchester code of 10 bytes, also for
\* numbits below 16.
C37_HyundaiKiaPrecheck ==
    (Returned("decode_short") /\ dec.args.numbits < 16 + 160) =>
        ~dec.out[1].ok

(***************************************************************************)
(* Properties of the sensor list and its views, under SpecList.            *)
(***************************************************************************)
\* C38: while the list clear of a long OK press interleaves with the
\* tpms_extract_and_store of the timer callback, every entry below
\* sensor_list.count is a reading that tpms_extract_and_store stored
\* (id_len > 0, rx_count >= 1), and count is at most TPMS_MAX_SENSORS.
C38_ListIntegrity ==
    /\ Len(app.sensor_list) <= TPMS_MAX_SENSORS
    /\ \A k \in 1..Len(app.sensor_list) :
          /\ app.sensor_list[k].id_len > 0
          /\ app.sensor_list[k].rx_count >= 1

\* C39: whenever the event loop is about to process an input, after any
\* inputs of the list view and the detail view, sensor additions and list
\* clears, 0 <= selected_sensor <= max(sensor_list.count - 1, 0); so the
\* detail view of a list that is not empty shows a slot below count.
C39_SelectionInRange ==
    dec.ui = "idle" =>
        /\ 0 <= app.selected_sensor
        /\ app.selected_sensor <= Max2(Len(app.sensor_list) - 1, 0)
        /\ (app.current_view = "ViewTPMSDetail" /\ app.sensor_list # <<>>) =>
               app.selected_sensor < Len(app.sensor_list)

\* The detail view shows the second of two sensors, reached with Right.
C39_Witness ==
    /\ dec.ui = "idle"
    /\ dec.done = "detail"
    /\ app.current_view = "ViewTPMSDetail"
    /\ Len(app.sensor_list) = 2
    /\ app.selected_sensor = 1

====
